---- MODULE Spec2Model ----
(***************************************************************************)
(* Verification model of the astrological-chart calculation core:          *)
(*   api/services/calculator.js            (chart, signs, aspects)         *)
(*   api/services/ikigai.js                (house assignment)              *)
(*   api/services/advanced-calculations.js (second half of ikigai.js)      *)
(*   api/services/venus-star-point.js      (unnamed/part_009)              *)
(*   api/services/mars-phase.js            (Mars phase lookup)             *)
(*   api/server.js, api/routes/astrology.js (module loading, handlers)     *)
(*                                                                         *)
(* Longitudes are whole degrees.  Instants are minutes since an epoch      *)
(* (JavaScript Date values divided by 60000); a calendar date, whether an  *)
(* ISO string of a reference table or a (year, month, day) triple of a     *)
(* request, is represented by its UTC day number.                          *)
(***************************************************************************)
EXTENDS Integers, Sequences, FiniteSets, TLC

VARIABLES
    \* getHouseForPlanet (ikigai.js)
    houseCusps, planetLongitude, houseResult,
    \* getZodiacSign (calculator.js and advanced calculations)
    signLongitude, signResult, signOp,
    \* venus-star-point.js: the table loaded at import, the last call, its result
    vspData, vspOp, vspBirth, vspResult,
    \* mars-phase.js: the table loaded at import, the last call, its result
    marsData, marsOp, marsBirth, marsResult,
    \* calculateAspects (calculator.js): the planets object, the call, its result
    planets, aspectOp, aspects,
    \* the process: EPHE_PATH, the directories holding ephemeris files, the
    \* provider's global data-file path, the modules loaded so far, whether the
    \* server listens, and the log of the requests served
    envEphePath, epheFiles, ephePath, loaded, listening, served,
    \* calculateChart and analyzeIkigai: what the provider answers, the chart
    \* returned (or the exception), the console.warn lines, the analysis
    chartProvider, chartResult, warnings, ikigaiResult,
    \* localToUTC: the civil time and zone passed, the provisional offset
    \* the date library starts from, the result
    timeInput, timeResult,
    \* the chart routes: the request served, the response sent, the
    \* arguments of the calculateChart calls made for it
    request, response, chartCalls,
    \* the prenatal eclipse searches: which search runs and where it stands,
    \* the locals of findPrenatal*Eclipse and findApproximatePrenatalEclipse,
    \* the value returned, the provider's ephemeris and its last answer, the
    \* numbers of provider searches and of fallback days, the last day tested
    eclType, eclPc, birthJd, searchJd, searchAttempts, eclipse, eclResult,
    ephemeris, lastAnswer, providerCalls, fallbackSteps, testedDay,
    \* calculatePlanetaryPhases: the planets object passed, the result
    phasePlanets, phases,
    \* calculateTransits: the natal chart and the transit day, the aspects
    \* array before it is sorted and cut, the result
    transitInput, transitDetected, transitResult,
    \* the client portal: the users, user_devices and sessions tables (rows of
    \* one user), the time in seconds, the requests started, the register and
    \* login requests in flight, the browser's auth store and the last answer
    \* of POST /refresh to it
    userExists, devices, sessions, clock, started, req, store, refreshAnswer

houseVars == <<houseCusps, planetLongitude, houseResult>>
signVars  == <<signLongitude, signResult, signOp>>
vspVars   == <<vspData, vspOp, vspBirth, vspResult>>
marsVars  == <<marsData, marsOp, marsBirth, marsResult>>
aspectVars == <<planets, aspectOp, aspects>>
serverVars == <<envEphePath, epheFiles, ephePath, loaded, listening, served>>
chartVars == <<chartProvider, chartResult, warnings, ikigaiResult>>
timeVars  == <<timeInput, timeResult>>
routeVars == <<request, response, chartCalls>>
eclipseVars == <<eclType, eclPc, birthJd, searchJd, searchAttempts, eclipse,
                 eclResult, ephemeris, lastAnswer, providerCalls,
                 fallbackSteps, testedDay>>
phaseVars == <<phasePlanets, phases>>
transitVars == <<transitInput, transitDetected, transitResult>>
authVars  == <<userExists, devices, sessions, clock, started, req, store,
               refreshAnswer>>
advVars   == <<chartVars, timeVars, routeVars, eclipseVars, phaseVars, transitVars, phaseVars,
               transitVars, authVars>>
vars      == <<houseVars, signVars, vspVars, marsVars, aspectVars, serverVars,
               advVars>>

(***************************************************************************)
(* JavaScript arithmetic                                                   *)
(***************************************************************************)
\* JavaScript's % : the remainder takes the sign of the dividend.
JsRem(a, n) == IF a >= 0 THEN a % n ELSE -((-a) % n)

\* Math.floor(a / n) for n > 0.
FloorDiv(a, n) == IF a >= 0 THEN a \div n ELSE -(((-a) + n - 1) \div n)

Abs(x) == IF x < 0 THEN -x ELSE x

\* array[i] for a 0-based JavaScript index: the element, or undefined outside
\* the array.
Undefined == "undefined"
HasIndex(arr, i) == i >= 0 /\ i < Len(arr)
At(arr, i) == IF HasIndex(arr, i) THEN arr[i + 1] ELSE Undefined

(***************************************************************************)
(* Bounds                                                                  *)
(***************************************************************************)
\* longitudes are drawn from MaxTurns full turns on either side of [0,360)
MaxTurns == 1
\* entries of the Venus Star Point table
MaxVsp == 5
\* entries of the Mars phase table
MaxMars == 3
\* the sign of successive table entries advances by 0 .. MaxStride signs
MaxStride == 3
\* body speeds range over -MaxSpeed .. MaxSpeed
MaxSpeed == 2
\* requests served by one run of the server
MaxRequests == 3

(***************************************************************************)
(* Zodiac signs                                                            *)
(***************************************************************************)
ZODIAC_SIGNS ==
    << "Aries", "Taurus", "Gemini", "Cancer", "Leo", "Virgo",
       "Libra", "Scorpio", "Sagittarius", "Capricorn", "Aquarius", "Pisces" >>

\* calculator.js getZodiacSign: normalizes, then indexes ZODIAC_SIGNS.
getZodiacSign(longitude) ==
    LET normalizedLng == JsRem(JsRem(longitude, 360) + 360, 360)
        signIndex     == FloorDiv(normalizedLng, 30)
        degreesInSign == JsRem(normalizedLng, 30)
    IN  [ sign      |-> At(ZODIAC_SIGNS, signIndex),
          degrees   |-> degreesInSign,
          longitude |-> normalizedLng ]

\* advanced calculations getZodiacSign: Math.floor(longitude / 30) % 12, no
\* normalization; a negative index reads outside the array.
getZodiacSignAdvanced(longitude) ==
    LET signIndex == JsRem(FloorDiv(longitude, 30), 12)
    IN  At(ZODIAC_SIGNS, signIndex)

(***************************************************************************)
(* Aspects (calculator.js)                                                 *)
(***************************************************************************)
ASPECTS ==
    << [ name |-> "conjunction",    angle |-> 0,   orb |-> 8 ],
       [ name |-> "sextile",        angle |-> 60,  orb |-> 6 ],
       [ name |-> "square",         angle |-> 90,  orb |-> 8 ],
       [ name |-> "trine",          angle |-> 120, orb |-> 8 ],
       [ name |-> "opposition",     angle |-> 180, orb |-> 8 ],
       [ name |-> "quincunx",       angle |-> 150, orb |-> 3 ],
       [ name |-> "semisextile",    angle |-> 30,  orb |-> 2 ],
       [ name |-> "semisquare",     angle |-> 45,  orb |-> 2 ],
       [ name |-> "sesquiquadrate", angle |-> 135, orb |-> 2 ] >>

RECURSIVE aspectScan(_, _, _, _)
\* for (const aspect of ASPECTS) { if (orbUsed <= aspect.orb) { push; break } }
aspectScan(p1, p2, diff, k) ==
    IF k > Len(ASPECTS) THEN <<>>
    ELSE LET aspect  == ASPECTS[k]
             orbUsed == Abs(diff - aspect.angle)
         IN  IF orbUsed <= aspect.orb
             THEN << [ planet1     |-> p1.name,
                       planet2     |-> p2.name,
                       aspect      |-> aspect.name,
                       exactAngle  |-> aspect.angle,
                       actualAngle |-> diff,
                       orb         |-> orbUsed,
                       applying    |->
                           IF Abs(p1.speed) > Abs(p2.speed)
                           THEN p1.speed > p2.speed
                           ELSE p2.speed > p1.speed ] >>
             ELSE aspectScan(p1, p2, diff, k + 1)

\* the body of the two nested loops for one pair
pairAspect(p1, p2) ==
    LET d    == Abs(p1.longitude - p2.longitude)
        diff == IF d > 180 THEN 360 - d ELSE d
    IN  aspectScan(p1, p2, diff, 1)

\* a plausible slip: the inner loop starts at the first body instead of the
\* one after i, so that every pair is met in both orders and every body is
\* paired with itself
innerLoop_FromFirst(ps, i, j) ==
    LET from[k \in 0..Len(ps)] ==
            IF k = 0 THEN <<>> ELSE from[k - 1] \o pairAspect(ps[i], ps[k])
    IN  from[Len(ps)]

RECURSIVE innerLoop(_, _, _)
\* for (let j = i + 1; j < planetNames.length; j++)
innerLoop(ps, i, j) ==
    IF j > Len(ps) THEN <<>>
    ELSE pairAspect(ps[i], ps[j]) \o innerLoop(ps, i, j + 1)

RECURSIVE outerLoop(_, _)
\* for (let i = 0; i < planetNames.length; i++)
outerLoop(ps, i) ==
    IF i > Len(ps) THEN <<>>
    ELSE innerLoop(ps, i, i + 1) \o outerLoop(ps, i + 1)

\* planets is the sequence of the object's entries in key order
calculateAspects(ps) == outerLoop(ps, 1)

(***************************************************************************)
(* The ephemeris provider (sweph) and the chart (calculator.js)            *)
(***************************************************************************)
\* path.join(__dirname, '../ephemeris') in api/services/calculator.js
CalculatorEphePath == "api/ephemeris"
\* path.join(__dirname, '../../ephe') in api/services/advanced-calculations.js
AdvancedEphePath == "ephe"
\* values of process.env.EPHE_PATH; "" is unset
EnvEphePaths == { "", "/opt/ephe", AdvancedEphePath }

\* Object.entries(PLANETS) without southNode
BODIES == << "sun", "moon", "mercury", "venus", "mars", "jupiter", "saturn",
             "uranus", "neptune", "pluto", "northNode", "chiron" >>

\* The provider is external: a body's longitude is a function of the Julian
\* Day, the body and the ephemeris files it finds under its global path.
\* Without files it falls back to its built-in analytic ephemeris, which
\* gives slightly different longitudes and has no Chiron.
BodyBase ==
    [ sun |-> 294, moon |-> 112, mercury |-> 280, venus |-> 329, mars |-> 235,
      jupiter |-> 21, saturn |-> 268, uranus |-> 269, neptune |-> 278,
      pluto |-> 222, northNode |-> 354, chiron |-> 87 ]

BodySpeed ==
    [ sun |-> 1, moon |-> 13, mercury |-> 2, venus |-> 1, mars |-> 1,
      jupiter |-> 0, saturn |-> 0, uranus |-> 0, neptune |-> 0,
      pluto |-> 0, northNode |-> -1, chiron |-> 0 ]

\* sweph.calc(jd_et, id, flags) under the global path
swephCalc(path, files, jd, body) ==
    IF path \in files
    THEN [ flag |-> 0, longitude |-> (BodyBase[body] + BodySpeed[body] * jd) % 360,
           speed |-> BodySpeed[body] ]
    ELSE IF body = "chiron"
         THEN [ flag |-> -1, longitude |-> 0, speed |-> 0 ]
         ELSE [ flag |-> 0,
                longitude |-> (BodyBase[body] + BodySpeed[body] * jd + 1) % 360,
                speed |-> BodySpeed[body] ]

BodySet == { BODIES[k] : k \in 1..Len(BODIES) }

\* the provider's answers to the planet loop's queries under the global path
swephCalcAll(path, files, jd) ==
    [ body \in BodySet |-> swephCalc(path, files, jd, body) ]

\* the provider's answers when the queries for the bodies in failed fail
\* (flag < 0) and the ephemeris files are in place
swephCalcFailing(failed, jd) ==
    [ body \in BodySet |->
        IF body \in failed
        THEN [ flag |-> -1, longitude |-> 0, speed |-> 0 ]
        ELSE swephCalc(CalculatorEphePath, {CalculatorEphePath}, jd, body) ]

\* sweph.houses_ex2: the twelve cusps and the points (Ascendant, MC, ...),
\* here equal houses from an Ascendant that turns with the Julian Day
swephHouses(jd) ==
    LET asc == (100 + 15 * jd) % 360
    IN  [ flag   |-> 0,
          houses |-> [ i \in 1..12 |-> (asc + 30 * (i - 1)) % 360 ],
          points |-> << asc, (asc + 270) % 360 >> ]

\* the result of a call that ends with an exception
Thrown == [threw |-> TRUE]

RECURSIVE planetLoop(_, _)
\* for (const [name, id] of Object.entries(PLANETS)): a failed body is skipped
planetLoop(calc, k) ==
    IF k > Len(BODIES) THEN <<>>
    ELSE LET result == calc[BODIES[k]]
         IN  IF result.flag < 0
             THEN planetLoop(calc, k + 1)
             ELSE << [ name       |-> BODIES[k],
                       longitude  |-> result.longitude,
                       speed      |-> result.speed,
                       retrograde |-> result.speed < 0,
                       sign       |-> getZodiacSign(result.longitude).sign ] >>
                  \o planetLoop(calc, k + 1)

RECURSIVE warnLoop(_, _)
\* the console.warn lines of the planet loop: the names of the failed bodies
warnLoop(calc, k) ==
    IF k > Len(BODIES) THEN <<>>
    ELSE (IF calc[BODIES[k]].flag < 0 THEN << BODIES[k] >> ELSE <<>>)
         \o warnLoop(calc, k + 1)

\* a plausible slip: the south node is added whether or not the north node
\* was calculated
withSouthNode_Always(ps) ==
    LET nodes == SelectSeq(ps, LAMBDA p : p.name = "northNode")
        southNodeLng == IF nodes = <<>> THEN 180
                        ELSE JsRem(nodes[1].longitude + 180, 360)
    IN  ps \o << [ name       |-> "southNode",
                   longitude  |-> southNodeLng,
                   speed      |-> 0,
                   retrograde |-> FALSE,
                   sign       |-> getZodiacSign(southNodeLng).sign ] >>

\* planets.southNode, added after the loop when northNode is present
withSouthNode(ps) ==
    LET nodes == SelectSeq(ps, LAMBDA p : p.name = "northNode")
    IN  IF nodes = <<>> THEN ps
        ELSE LET southNodeLng == JsRem(nodes[1].longitude + 180, 360)
             IN  ps \o << [ name       |-> "southNode",
                            longitude  |-> southNodeLng,
                            speed      |-> nodes[1].speed,
                            retrograde |-> nodes[1].retrograde,
                            sign       |-> getZodiacSign(southNodeLng).sign ] >>

\* houses: one record per cusp of the provider's answer
chartHouses(housesResult) ==
    [ i \in 1..12 |-> [ house |-> i,
                        cusp  |-> housesResult.houses[i],
                        sign  |-> getZodiacSign(housesResult.houses[i]).sign ] ]

\* angles: Ascendant and MC from the points, their opposites computed
chartAngles(housesResult) ==
    LET ascendant == housesResult.points[1]
        mc        == housesResult.points[2]
    IN  [ ascendant  |-> ascendant,
          midheaven  |-> mc,
          descendant |-> JsRem(ascendant + 180, 360),
          ic         |-> JsRem(mc + 180, 360) ]

\* calculateChart from the provider's answers: a failed body is left out, a
\* failed house calculation throws
calculateChartFrom(event, calc, housesResult) ==
    IF housesResult.flag < 0 THEN Thrown
    ELSE LET ps == withSouthNode(planetLoop(calc, 1))
         IN  [ input   |-> event,
               planets |-> ps,
               houses  |-> chartHouses(housesResult),
               angles  |-> chartAngles(housesResult),
               aspects |-> calculateAspects(ps) ]

\* calculateChart under the provider's current global path; the birth event
\* is given by its resolved Julian Day
calculateChart(event, path, files) ==
    calculateChartFrom(event, swephCalcAll(path, files, event.jd),
                       swephHouses(event.jd))

\* the top-level statements of a service module that touch the provider
loadModule(module, env, path) ==
    CASE module = "calculator" ->
             IF env # "" THEN env ELSE CalculatorEphePath
      [] module = "advanced-calculations" -> AdvancedEphePath
      [] OTHER -> path

\* routes/astrology.js requires the services in this order
LoadOrder ==
    << "calculator", "venus-star-point", "mars-phase", "advanced-calculations" >>

\* a plausible slip: a service is required lazily, inside a handler, so the
\* server can listen as soon as the first service is loaded
canListen_Lazy(modules) == Len(modules) >= 1

\* server.js requires the routes (and so every service) before app.listen
canListen(modules) == Len(modules) = Len(LoadOrder)

(***************************************************************************)
(* House assignment                                                        *)
(***************************************************************************)
RECURSIVE houseScan(_, _, _)
\* the for loop of getHouseForPlanet from index i (0-based) on
houseScan(lng, cusps, i) ==
    IF i >= 12 THEN 1
    ELSE LET currentCusp == cusps[i + 1]
             nextCusp    == cusps[((i + 1) % 12) + 1]
         IN  IF nextCusp < currentCusp
             THEN IF lng >= currentCusp \/ lng < nextCusp
                  THEN i + 1 ELSE houseScan(lng, cusps, i + 1)
             ELSE IF lng >= currentCusp /\ lng < nextCusp
                  THEN i + 1 ELSE houseScan(lng, cusps, i + 1)

\* a plausible slip: the longitude is used without normalization
getHouseForPlanet_NoNormalize(planetLng, cusps) ==
    houseScan(planetLng, cusps, 0)

getHouseForPlanet(planetLng, cusps) ==
    houseScan(JsRem(JsRem(planetLng, 360) + 360, 360), cusps, 0)

(***************************************************************************)
(* Ikigai analysis (ikigai.js)                                             *)
(***************************************************************************)
\* JavaScript's null
Null == "null"

\* planets[name]: the chart's record of that name, if there is one
planetNamed(ps, name) == SelectSeq(ps, LAMBDA p : p.name = name)

\* chart.houses || {} and then houses.cusps || []: the houses of a chart of
\* calculateChart are an Array of { house, cusp, sign } records, and an Array
\* has no property cusps, so the list of cusps is the empty one
cuspListOf(houses) == <<>>

\* houseCusps.length > 0 ? getHouseForPlanet(...) : planet.house || null;
\* the planets of calculateChart carry no house
houseOrNull(planet, cuspList) ==
    IF Len(cuspList) > 0
    THEN getHouseForPlanet(planet.longitude, cuspList)
    ELSE Null

RECURSIVE primaryInfluences(_, _, _, _)
\* for (const planetName of component.primaryPlanets)
primaryInfluences(ps, cuspList, primaryPlanets, k) ==
    IF k > Len(primaryPlanets) THEN <<>>
    ELSE LET found == planetNamed(ps, primaryPlanets[k])
         IN  IF found = <<>>
             THEN primaryInfluences(ps, cuspList, primaryPlanets, k + 1)
             ELSE << [ planet |-> primaryPlanets[k],
                       sign   |-> found[1].sign,
                       house  |-> houseOrNull(found[1], cuspList) ] >>
                  \o primaryInfluences(ps, cuspList, primaryPlanets, k + 1)

\* analyzeIkigai: the influences of the component's primary planets and the
\* soul purpose of the North Node (planets.north_node || planets.northNode);
\* soulPurpose is set only when the node is there
analyzeIkigai(chart, primaryPlanets) ==
    LET cuspList == cuspListOf(chart.houses)
        northNode  == planetNamed(chart.planets, "north_node")
                      \o planetNamed(chart.planets, "northNode")
    IN  [ primaryInfluences |->
              primaryInfluences(chart.planets, cuspList, primaryPlanets, 1),
          soulPurpose |->
              IF northNode = <<>> THEN <<>>
              ELSE << [ sign  |-> northNode[1].sign,
                        house |-> houseOrNull(northNode[1], cuspList) ] >> ]

(***************************************************************************)
(* Dates and instants                                                      *)
(***************************************************************************)
\* parseDate(dateStr): midnight UTC of the date, in minutes
parseDate(date) == date * 1440

\* new Date(Date.UTC(year, month - 1, day, hour, minute)), in minutes
DateUTC(day, hour, minute) == day * 1440 + hour * 60 + minute

\* Math.floor(ms / (1000 * 60 * 60 * 24)) on a difference of instants
WholeDays(minutes) == FloorDiv(minutes, 1440)

(***************************************************************************)
(* Civil time to UTC (calculator.js, through the luxon library)            *)
(*                                                                         *)
(* A civil time is month, day, hour and minute of one model year, 2023; a  *)
(* local timestamp is the minutes from January 1st 00:00 on the wall       *)
(* clock, and an instant the minutes from January 1st 00:00 UTC.           *)
(***************************************************************************)
DaysInMonth == << 31, 28, 31, 30, 31, 30, 31, 31, 30, 31, 30, 31 >>

RECURSIVE daysBeforeMonth(_)
daysBeforeMonth(month) ==
    IF month <= 1 THEN 0
    ELSE DaysInMonth[month - 1] + daysBeforeMonth(month - 1)

\* the zones the library's IANA data knows (two of them)
KnownZones == { "UTC", "America/New_York" }

\* zone.offset(ts) in minutes.  New York, 2023: UTC-5 until March 12th
\* 07:00 UTC (02:00 on the wall clock, which then reads 03:00), UTC-4 until
\* November 5th 06:00 UTC, UTC-5 afterwards.
zoneOffset(zone, ts) ==
    IF zone = "America/New_York"
    THEN LET springForward == (daysBeforeMonth(3) + 11) * 1440 + 7 * 60
             fallBack      == (daysBeforeMonth(11) + 4) * 1440 + 6 * 60
         IN  IF ts >= springForward /\ ts < fallBack THEN -240 ELSE -300
    ELSE 0

\* the library's unit validation of fromObject
hasInvalidUnits(civil) ==
    \/ civil.month < 1 \/ civil.month > 12
    \/ civil.day < 1
    \/ (civil.month \in 1..12 /\ civil.day > DaysInMonth[civil.month])
    \/ civil.hour < 0 \/ civil.hour > 23
    \/ civil.minute < 0 \/ civil.minute > 59

\* the wall-clock reading as a timestamp, as if it were UTC
objToLocalTS(civil) ==
    (daysBeforeMonth(civil.month) + civil.day - 1) * 1440
        + civil.hour * 60 + civil.minute

\* the library's resolution of a local timestamp from a provisional offset
\* o: guess an instant, re-read the zone's offset there and adjust once; if
\* the two offsets still disagree the wall-clock time lies in a gap, and the
\* smaller offset is taken, which moves the time forward by the gap
fixOffset(localTS, o, zone) ==
    LET utcGuess  == localTS - o
        o2        == zoneOffset(zone, utcGuess)
        utcGuess2 == utcGuess - (o2 - o)
        o3        == zoneOffset(zone, utcGuess2)
    IN  IF o2 = o THEN [ ts |-> utcGuess, offset |-> o ]
        ELSE IF o2 = o3 THEN [ ts |-> utcGuess2, offset |-> o2 ]
        ELSE [ ts     |-> localTS - (IF o2 < o3 THEN o2 ELSE o3),
               offset |-> IF o2 > o3 THEN o2 ELSE o3 ]

\* DateTime.fromObject({ year, month, day, hour, minute }, { zone }): invalid
\* for an unknown zone or a unit out of range, else the resolved instant
fromObject(civil, zone, now) ==
    IF zone \notin KnownZones THEN [ isValid |-> FALSE, ts |-> 0, offset |-> 0 ]
    ELSE IF hasInvalidUnits(civil)
         THEN [ isValid |-> FALSE, ts |-> 0, offset |-> 0 ]
         ELSE LET fixed == fixOffset(objToLocalTS(civil),
                                     zoneOffset(zone, now), zone)
              IN  [ isValid |-> TRUE, ts |-> fixed.ts, offset |-> fixed.offset ]

\* localToUTC: throws when the library reports the DateTime invalid, else
\* returns the UTC instant, the offset and the local time the library read
localToUTC(civil, zone, now) ==
    LET localDt == fromObject(civil, zone, now)
    IN  IF ~localDt.isValid THEN Thrown
        ELSE [ utc       |-> localDt.ts,
               utcOffset |-> localDt.offset,
               localTime |-> localDt.ts + localDt.offset ]

(***************************************************************************)
(* The chart routes (routes/astrology.js)                                  *)
(***************************************************************************)
\* if (!timezone) missing.push('timezone'); the other fields are present
missingFields(body) ==
    IF body.timezone = "" THEN << "timezone" >> ELSE <<>>

\* the range validation of POST /chart: the message of the first check that
\* fails, or "" when all pass
rangeError(body) ==
    IF body.month < 1 \/ body.month > 12 THEN "month must be 1-12"
    ELSE IF body.day < 1 \/ body.day > 31 THEN "day must be 1-31"
    ELSE IF body.hour < 0 \/ body.hour > 23 THEN "hour must be 0-23"
    ELSE IF body.minute < 0 \/ body.minute > 59 THEN "minute must be 0-59"
    ELSE IF body.latitude < -90 \/ body.latitude > 90
         THEN "latitude must be -90 to 90"
    ELSE IF body.longitude < -180 \/ body.longitude > 180
         THEN "longitude must be -180 to 180"
    ELSE ""

\* the call of calculateChart and the response built from it: 500 when it
\* throws (the civil time is rejected, or the provider rejects the house
\* calculation), 200 with the data otherwise
respondWithChart(body, now, housesOk) ==
    LET civil == [ month |-> body.month, day |-> body.day,
                   hour |-> body.hour, minute |-> body.minute ]
        threw == localToUTC(civil, body.timezone, now) = Thrown \/ ~housesOk
    IN  [ response |-> IF threw THEN [ status |-> 500, error |-> "exception" ]
                       ELSE [ status |-> 200, error |-> "" ],
          calls    |-> << body >> ]

\* 400 with a message, no chart calculation
reject(message) ==
    [ response |-> [ status |-> 400, error |-> message ], calls |-> <<>> ]

\* router.post('/chart'): required fields, ranges, then the chart
postChart(body, now, housesOk) ==
    IF Len(missingFields(body)) > 0 THEN reject("Missing required fields")
    ELSE IF rangeError(body) # "" THEN reject(rangeError(body))
    ELSE respondWithChart(body, now, housesOk)

\* router.post('/chart/full'): required fields, then the chart
postChartFull(body, now, housesOk) ==
    IF Len(missingFields(body)) > 0 THEN reject("Missing required fields")
    ELSE respondWithChart(body, now, housesOk)

\* router.post('/chart/comprehensive'): required fields, then the chart
postChartComprehensive(body, now, housesOk) ==
    IF Len(missingFields(body)) > 0 THEN reject("Missing required fields")
    ELSE respondWithChart(body, now, housesOk)

(***************************************************************************)
(* Prenatal eclipse searches (advanced calculations, in ikigai.js)         *)
(*                                                                         *)
(* Julian Days are whole days.                                             *)
(***************************************************************************)
RECURSIVE normalizeAngle(_)
\* while (angle < 0) angle += 360; while (angle >= 360) angle -= 360
normalizeAngle(angle) ==
    IF angle < 0 THEN normalizeAngle(angle + 360)
    ELSE IF angle >= 360 THEN normalizeAngle(angle - 360)
    ELSE angle

\* const maxAttempts = 10
maxAttempts == 10

\* const maxDays = 400
maxDays == 400

\* let eclipse = null
NoEclipse == [ none |-> TRUE ]

\* while (!eclipse && searchAttempts < maxAttempts)
loopContinues(ecl, attempts) == ecl = NoEclipse /\ attempts < maxAttempts

\* a plausible slip: an eclipse at the birth instant itself counts as prenatal
isPrenatal_NotAfter(answer, birth) ==
    answer.kind = "result" /\ answer.tret <= birth

\* result && result.tret && result.tret[0] < birthJd
isPrenatal(answer, birth) ==
    answer.kind = "result" /\ answer.tret < birth

\* the eclipse record built from the provider's answer
exactEclipse(type, answer, birth) ==
    [ approximate     |-> FALSE,
      type            |-> type,
      julianDay       |-> answer.tret,
      daysBeforeBirth |-> birth - answer.tret ]

\* a plausible slip: the provider call is made outside the try block, so its
\* exception leaves the function
searchAttempt_NoCatch(type, answer, birth, origin, attempts) ==
    IF answer.kind = "throw"
    THEN [ threw |-> TRUE, eclipse |-> NoEclipse,
           searchJd |-> origin, searchAttempts |-> attempts ]
    ELSE IF isPrenatal(answer, birth)
    THEN [ threw |-> FALSE, eclipse |-> exactEclipse(type, answer, birth),
           searchJd |-> origin, searchAttempts |-> attempts ]
    ELSE [ threw |-> FALSE, eclipse |-> NoEclipse,
           searchJd |-> origin - 180, searchAttempts |-> attempts + 1 ]

\* one turn of the loop for the provider's answer: an exception is caught and
\* counts as a failed attempt; a prenatal eclipse ends the loop; anything
\* else is a failed attempt, and the origin moves 180 days back
searchAttempt(type, answer, birth, origin, attempts) ==
    IF answer.kind = "throw"
    THEN [ threw |-> FALSE, eclipse |-> NoEclipse,
           searchJd |-> origin - 180, searchAttempts |-> attempts + 1 ]
    ELSE IF isPrenatal(answer, birth)
    THEN [ threw |-> FALSE, eclipse |-> exactEclipse(type, answer, birth),
           searchJd |-> origin, searchAttempts |-> attempts ]
    ELSE [ threw |-> FALSE, eclipse |-> NoEclipse,
           searchJd |-> origin - 180, searchAttempts |-> attempts + 1 ]

\* a plausible slip: the day maxDays before the birth is tested as well
fallbackContinues_Inclusive(birth, day) == birth - day <= maxDays

\* while (birthJd - searchJd < maxDays)
fallbackContinues(birth, day) == birth - day < maxDays

\* sweph.calc for Sun, Moon and node on a day: the Sun gains one degree a
\* day, the Moon thirteen, the node loses one in nineteen days; without data
\* every longitude reads 0 (sunPos.data ? sunPos.data[0] : 0)
positions(e, birth, day) ==
    IF ~e.hasData THEN [ sunLng |-> 0, moonLng |-> 0, nodeLng |-> 0 ]
    ELSE [ sunLng  |-> (e.sun + (day - birth)) % 360,
           moonLng |-> (e.moon + 13 * (day - birth)) % 360,
           nodeLng |-> (e.node - ((day - birth) \div 19)) % 360 ]

\* Math.min(|normalizeAngle(sun - node)|, |normalizeAngle(sun - (node + 180))|)
sunNodeDist(sunLng, nodeLng) ==
    LET toNode     == Abs(normalizeAngle(sunLng - nodeLng))
        toOpposite == Abs(normalizeAngle(sunLng - (nodeLng + 180)))
    IN  IF toNode < toOpposite THEN toNode ELSE toOpposite

\* the test of a day: New Moon (solar) or Full Moon (lunar) near a node
acceptsDay(type, sunLng, moonLng, nodeLng) ==
    LET sunMoonDist == Abs(normalizeAngle(sunLng - moonLng))
    IN  IF type = "solar"
        THEN sunMoonDist < 5 /\ sunNodeDist(sunLng, nodeLng) < 18
        ELSE Abs(sunMoonDist - 180) < 5 /\ sunNodeDist(sunLng, nodeLng) < 18

\* the record returned for an accepted day
approximateEclipse(type, birth, day) ==
    [ approximate     |-> TRUE,
      type            |-> type,
      julianDay       |-> day,
      daysBeforeBirth |-> birth - day ]

\* return eclipse || { error: 'Could not find prenatal ... eclipse',
\*                     available: false }
orUnavailable(ecl, type) ==
    IF ecl = NoEclipse
    THEN [ error     |-> IF type = "solar"
                         THEN "Could not find prenatal solar eclipse"
                         ELSE "Could not find prenatal lunar eclipse",
           available |-> FALSE ]
    ELSE ecl

(***************************************************************************)
(* Planetary phases (advanced calculations, in ikigai.js)                  *)
(***************************************************************************)
\* a plausible slip: a bucket takes its upper boundary
getPlanetaryPhaseName_Inclusive(angle) ==
    IF angle <= 45 THEN "New Phase"
    ELSE IF angle <= 90 THEN "Crescent Phase"
    ELSE IF angle <= 135 THEN "First Quarter"
    ELSE IF angle <= 180 THEN "Gibbous Phase"
    ELSE IF angle <= 225 THEN "Full Phase"
    ELSE IF angle <= 270 THEN "Disseminating Phase"
    ELSE IF angle <= 315 THEN "Last Quarter"
    ELSE "Balsamic Phase"

getPlanetaryPhaseName(angle) ==
    IF angle < 45 THEN "New Phase"
    ELSE IF angle < 90 THEN "Crescent Phase"
    ELSE IF angle < 135 THEN "First Quarter"
    ELSE IF angle < 180 THEN "Gibbous Phase"
    ELSE IF angle < 225 THEN "Full Phase"
    ELSE IF angle < 270 THEN "Disseminating Phase"
    ELSE IF angle < 315 THEN "Last Quarter"
    ELSE "Balsamic Phase"

\* if (planets.a && planets.b): the entry of a pair with a phase name, set
\* only when both bodies are there
phaseEntry(ps, a, b) ==
    LET pa == planetNamed(ps, a)
        pb == planetNamed(ps, b)
    IN  IF pa = <<>> \/ pb = <<>> THEN <<>>
        ELSE LET angle == normalizeAngle(pa[1].longitude - pb[1].longitude)
             IN  << [ angle |-> angle,
                      phase |-> getPlanetaryPhaseName(angle) ] >>

\* phases.mercurySun: morning or evening star instead of a phase name
mercurySunEntry(ps) ==
    LET mercury == planetNamed(ps, "mercury")
        sun     == planetNamed(ps, "sun")
    IN  IF mercury = <<>> \/ sun = <<>> THEN <<>>
        ELSE LET mercSunAngle ==
                     normalizeAngle(mercury[1].longitude - sun[1].longitude)
             IN  << [ angle         |-> mercSunAngle,
                      isMorningStar |-> mercSunAngle > 180 \/ mercSunAngle < 28,
                      isEveningStar |-> mercSunAngle >= 28 /\ mercSunAngle <= 180 ] >>

calculatePlanetaryPhases(ps) ==
    [ marsSun       |-> phaseEntry(ps, "mars", "sun"),
      saturnJupiter |-> phaseEntry(ps, "saturn", "jupiter"),
      venusMars     |-> phaseEntry(ps, "venus", "mars"),
      mercurySun    |-> mercurySunEntry(ps) ]

(***************************************************************************)
(* Transits (advanced calculations, in ikigai.js)                          *)
(***************************************************************************)
\* Object.entries(PLANETS) of the advanced calculations, with the lower-case
\* key each transit planet is stored under
TRANSIT_BODIES ==
    << [ name |-> "sun", body |-> "sun" ], [ name |-> "moon", body |-> "moon" ],
       [ name |-> "mercury", body |-> "mercury" ],
       [ name |-> "venus", body |-> "venus" ], [ name |-> "mars", body |-> "mars" ],
       [ name |-> "jupiter", body |-> "jupiter" ],
       [ name |-> "saturn", body |-> "saturn" ],
       [ name |-> "uranus", body |-> "uranus" ],
       [ name |-> "neptune", body |-> "neptune" ],
       [ name |-> "pluto", body |-> "pluto" ],
       [ name |-> "north_node", body |-> "northNode" ] >>

aspectTypes ==
    << [ name |-> "Conjunction", angle |-> 0, orb |-> 8 ],
       [ name |-> "Opposition", angle |-> 180, orb |-> 8 ],
       [ name |-> "Trine", angle |-> 120, orb |-> 6 ],
       [ name |-> "Square", angle |-> 90, orb |-> 6 ],
       [ name |-> "Sextile", angle |-> 60, orb |-> 4 ] >>

RECURSIVE transitLoop(_, _, _, _)
\* the transit planets: the bodies the provider could calculate
transitLoop(path, files, jd, k) ==
    IF k > Len(TRANSIT_BODIES) THEN <<>>
    ELSE LET result == swephCalc(path, files, jd, TRANSIT_BODIES[k].body)
         IN  (IF result.flag >= 0
              THEN << [ name        |-> TRANSIT_BODIES[k].name,
                        longitude   |-> result.longitude,
                        isRetrograde |-> result.speed < 0 ] >>
              ELSE <<>>)
             \o transitLoop(path, files, jd, k + 1)

RECURSIVE aspectTypeLoop(_, _, _, _)
\* for (const aspect of aspectTypes): every type within orb is pushed
aspectTypeLoop(transitPos, natalPos, diff, k) ==
    IF k > Len(aspectTypes) THEN <<>>
    ELSE LET orbDiff   == Abs(diff - aspectTypes[k].angle)
             orbDiff2  == Abs((360 - diff) - aspectTypes[k].angle)
             actualOrb == IF orbDiff < orbDiff2 THEN orbDiff ELSE orbDiff2
         IN  (IF actualOrb <= aspectTypes[k].orb
              THEN << [ transit |-> transitPos.name,
                        natal   |-> natalPos.name,
                        aspect  |-> aspectTypes[k].name,
                        orb     |-> actualOrb,
                        exact   |-> actualOrb < 1 ] >>
              ELSE <<>>)
             \o aspectTypeLoop(transitPos, natalPos, diff, k + 1)

RECURSIVE natalLoop(_, _, _)
\* for (const [natalName, natalPos] of Object.entries(natalPlanets)): a natal
\* planet whose longitude is falsy (0) is passed over
natalLoop(transitPos, natal, j) ==
    IF j > Len(natal) THEN <<>>
    ELSE (IF natal[j].longitude = 0 THEN <<>>
          ELSE aspectTypeLoop(transitPos, natal[j],
                   Abs(normalizeAngle(transitPos.longitude - natal[j].longitude)),
                   1))
         \o natalLoop(transitPos, natal, j + 1)

RECURSIVE detectTransitAspects(_, _, _)
\* for (const [transitName, transitPos] of Object.entries(transitPlanets))
detectTransitAspects(transit, natal, i) ==
    IF i > Len(transit) THEN <<>>
    ELSE natalLoop(transit[i], natal, 1)
         \o detectTransitAspects(transit, natal, i + 1)

RECURSIVE insertByOrb(_, _)
\* x goes behind every record whose orb is not larger (the sort is stable)
insertByOrb(sorted, x) ==
    IF sorted = <<>> THEN << x >>
    ELSE IF sorted[Len(sorted)].orb <= x.orb THEN Append(sorted, x)
    ELSE Append(insertByOrb(SubSeq(sorted, 1, Len(sorted) - 1), x),
                sorted[Len(sorted)])

RECURSIVE sortFrom(_, _, _)
sortFrom(list, sorted, k) ==
    IF k > Len(list) THEN sorted
    ELSE sortFrom(list, insertByOrb(sorted, list[k]), k + 1)

\* a plausible slip: the array is cut without being sorted
sortByOrb_Unsorted(list) == list

\* aspects.sort((a, b) => parseFloat(a.orb) - parseFloat(b.orb))
sortByOrb(list) == sortFrom(list, <<>>, 1)

\* aspects.slice(0, n)
slice(list, n) == SubSeq(list, 1, IF Len(list) < n THEN Len(list) ELSE n)

\* calculateTransits for the planets of a natal chart and a transit day
calculateTransits(natal, path, files, transitJd) ==
    LET transitPlanets == transitLoop(path, files, transitJd, 1)
        detected       == detectTransitAspects(transitPlanets, natal, 1)
    IN  [ transitPlanets |-> transitPlanets,
          aspectsToNatal |-> slice(sortByOrb(detected), 20) ]

(***************************************************************************)
(* Venus Star Point (venus-star-point.js)                                  *)
(***************************************************************************)
\* a plausible slip: the scan runs forward and stops at the first entry that
\* qualifies instead of the last one
prenatalScan_Forward(data, targetTime, beforeOnly, i) ==
    LET S == { j \in 0..i :
                 IF beforeOnly THEN parseDate(data[j + 1].date) < targetTime
                 ELSE parseDate(data[j + 1].date) <= targetTime }
    IN  IF S = {} THEN -1 ELSE CHOOSE j \in S : \A k \in S : j <= k

RECURSIVE prenatalScan(_, _, _, _)
\* the backward for loop of findPrenatalVSPIndex / findPrenatalMarsPhaseIndex
prenatalScan(data, targetTime, beforeOnly, i) ==
    IF i < 0 THEN -1
    ELSE LET t == parseDate(data[i + 1].date)
         IN  IF beforeOnly
             THEN IF t < targetTime THEN i
                  ELSE prenatalScan(data, targetTime, beforeOnly, i - 1)
             ELSE IF t <= targetTime THEN i
                  ELSE prenatalScan(data, targetTime, beforeOnly, i - 1)

\* a plausible slip: the beforeOnly flag is ignored and "on or before" is used
findPrenatalVSPIndex_OnOrBefore(data, targetTime, beforeOnly) ==
    prenatalScan(data, targetTime, FALSE, Len(data) - 1)

findPrenatalVSPIndex(data, targetTime, beforeOnly) ==
    prenatalScan(data, targetTime, beforeOnly, Len(data) - 1)

RECURSIVE postnatalScan(_, _, _)
postnatalScan(data, targetTime, i) ==
    IF i >= Len(data) THEN -1
    ELSE IF parseDate(data[i + 1].date) > targetTime THEN i
         ELSE postnatalScan(data, targetTime, i + 1)

findPostnatalVSPIndex(data, targetTime) == postnatalScan(data, targetTime, 0)

calculatePrenatalVSP(data, birth) ==
    LET birthDate     == DateUTC(birth.day, birth.hour, birth.minute)
        prenatalIndex == findPrenatalVSPIndex(data, birthDate, TRUE)
    IN  IF prenatalIndex < 0
        THEN [ error     |-> "Birth date is before available VSP data (starts 1901)",
               available |-> FALSE ]
        ELSE LET vsp == At(data, prenatalIndex)
             IN  IF ~HasIndex(data, prenatalIndex) THEN Thrown
                 ELSE [ date  |-> vsp.date,
                        sign  |-> vsp.sign,
                        index |-> prenatalIndex,
                        daysBeforeBirth |->
                            WholeDays(birthDate - parseDate(vsp.date)) ]

signElements ==
    [ Aries |-> "fire",  Leo |-> "fire",   Sagittarius |-> "fire",
      Taurus |-> "earth", Virgo |-> "earth", Capricorn |-> "earth",
      Gemini |-> "air",  Libra |-> "air",  Aquarius |-> "air",
      Cancer |-> "water", Scorpio |-> "water", Pisces |-> "water" ]

\* elementCount after signs.forEach(...), in Object.entries order
elementEntries(signs) ==
    LET count(e) ==
            Cardinality({ i \in 1..Len(signs) :
                            signs[i] \in DOMAIN signElements
                            /\ signElements[signs[i]] = e })
    IN  << <<"fire", count("fire")>>, <<"earth", count("earth")>>,
           <<"air", count("air")>>, <<"water", count("water")>> >>

RECURSIVE insertDesc(_, _)
\* insert x behind every element that does not compare after it (stable)
insertDesc(sorted, x) ==
    IF sorted = <<>> THEN <<x>>
    ELSE IF Head(sorted)[2] - x[2] >= 0
         THEN <<Head(sorted)>> \o insertDesc(Tail(sorted), x)
         ELSE <<x>> \o sorted

RECURSIVE sortDesc(_)
\* entries.sort((a, b) => b[1] - a[1]): Array.prototype.sort is stable
sortDesc(entries) ==
    IF entries = <<>> THEN <<>>
    ELSE insertDesc(sortDesc(SubSeq(entries, 1, Len(entries) - 1)),
                    entries[Len(entries)])

RECURSIVE sortAsc(_)
\* a plausible slip: the comparator is written a[1] - b[1]
sortAsc(entries) ==
    IF entries = <<>> THEN <<>>
    ELSE LET rest == sortAsc(SubSeq(entries, 1, Len(entries) - 1))
             x    == entries[Len(entries)]
             k    == Cardinality({ i \in 1..Len(rest) : rest[i][2] <= x[2] })
         IN  SubSeq(rest, 1, k) \o <<x>> \o SubSeq(rest, k + 1, Len(rest))

\* a plausible slip: the smallest tally is taken as the dominant one
dominantElement_Ascending(signs) ==
    LET top == sortAsc(elementEntries(signs))[1]
    IN  [ element |-> top[1], count |-> top[2], total |-> Len(signs) ]

\* a plausible slip: among equal tallies the last one wins
dominantElement_LastTie(signs) ==
    LET sorted == sortDesc(elementEntries(signs))
        k      == Cardinality({ i \in 1..4 : sorted[i][2] = sorted[1][2] })
    IN  [ element |-> sorted[k][1], count |-> sorted[k][2],
          total |-> Len(signs) ]

dominantElement(signs) ==
    LET top == sortDesc(elementEntries(signs))[1]
    IN  [ element |-> top[1], count |-> top[2], total |-> Len(signs) ]

\* a plausible slip: the point is built from the entry before the one asked
\* for (an index counted from 1 where the table counts from 0)
starPoint_Previous(data, i, position) ==
    LET j   == IF i > 0 THEN i - 1 ELSE i
        vsp == At(data, j)
    IN  [ position |-> position, date |-> vsp.date, sign |-> vsp.sign,
          index |-> j ]

\* one point of the star, built from table entry i
starPoint(data, i, position) ==
    LET vsp == At(data, i)
    IN  [ position |-> position, date |-> vsp.date, sign |-> vsp.sign,
          index |-> i ]

calculateVenusStar(data, birth) ==
    LET birthDate      == DateUTC(birth.day, birth.hour, birth.minute)
        prenatalIndex  == findPrenatalVSPIndex(data, birthDate, TRUE)
        postnatalIndex == findPostnatalVSPIndex(data, birthDate)
        present ==
            (IF prenatalIndex >= 0 THEN {"venusStarPoint"} ELSE {})
            \cup (IF prenatalIndex >= 1 THEN {"leftArm"} ELSE {})
            \cup (IF prenatalIndex >= 2 THEN {"rightArm"} ELSE {})
            \cup (IF postnatalIndex >= 0 /\ postnatalIndex < Len(data)
                  THEN {"leftLeg"} ELSE {})
            \cup (IF postnatalIndex >= 0 /\ postnatalIndex + 1 < Len(data)
                  THEN {"rightLeg"} ELSE {})
        indexOf ==
            [ venusStarPoint |-> prenatalIndex,
              leftArm        |-> prenatalIndex - 1,
              rightArm       |-> prenatalIndex - 2,
              leftLeg        |-> postnatalIndex,
              rightLeg       |-> postnatalIndex + 1 ]
        positionOf ==
            [ venusStarPoint |-> "top",
              leftArm        |-> "left-arm",
              rightArm       |-> "right-arm",
              leftLeg        |-> "left-leg",
              rightLeg       |-> "right-leg" ]
        points == [ p \in present |-> starPoint(data, indexOf[p], positionOf[p]) ]
        order  == << "rightArm", "leftArm", "venusStarPoint", "leftLeg", "rightLeg" >>
        signs  == LET keep(p) == p \in present
                      picked  == SelectSeq(order, keep)
                  IN  [ i \in 1..Len(picked) |-> points[picked[i]].sign ]
    IN  IF prenatalIndex < 0
        THEN [ error     |-> "Birth date is before available VSP data",
               available |-> FALSE ]
        ELSE [ birthDate       |-> WholeDays(birthDate),
               available       |-> TRUE,
               points          |-> points,
               signPattern     |-> signs,
               dominantElement |-> dominantElement(signs) ]

(***************************************************************************)
(* Mars phase (mars-phase.js)                                              *)
(***************************************************************************)
findPrenatalMarsPhaseIndex(data, targetTime, beforeOnly) ==
    prenatalScan(data, targetTime, beforeOnly, Len(data) - 1)

calculatePrenatalMarsPhase(data, birth) ==
    LET birthDate     == DateUTC(birth.day, birth.hour, birth.minute)
        prenatalIndex == findPrenatalMarsPhaseIndex(data, birthDate, TRUE)
    IN  IF prenatalIndex < 0
        THEN [ error     |-> "Birth date is before available Mars Phase data (starts 1902)",
               available |-> FALSE ]
        ELSE LET mars == At(data, prenatalIndex)
             IN  IF ~HasIndex(data, prenatalIndex) THEN Thrown
                 ELSE [ date  |-> mars.date,
                        cycle |-> mars.cycle,
                        phase |-> mars.phase,
                        index |-> prenatalIndex,
                        daysBeforeBirth |->
                            WholeDays(birthDate - parseDate(mars.date)) ]

\* a plausible slip: the backward scan is left out and the cycle is collected
\* from the prenatal entry onwards
cycleStartIndex_NoScan(data, currentCycle, startIndex) == startIndex

RECURSIVE cycleStartIndex(_, _, _)
\* while (startIndex > 0 && data[startIndex - 1].cycle === currentCycle) startIndex--
cycleStartIndex(data, currentCycle, startIndex) ==
    IF startIndex > 0 /\ data[startIndex].cycle = currentCycle
    THEN cycleStartIndex(data, currentCycle, startIndex - 1)
    ELSE startIndex

RECURSIVE collectCycle(_, _, _, _, _)
\* while (i < data.length && data[i].cycle === currentCycle) cyclePhases.push(...)
collectCycle(data, currentCycle, birthDate, prenatalIndex, i) ==
    IF i < Len(data) /\ data[i + 1].cycle = currentCycle
    THEN << [ date           |-> data[i + 1].date,
              cycle          |-> data[i + 1].cycle,
              phase          |-> data[i + 1].phase,
              isPrenatal     |-> parseDate(data[i + 1].date) < birthDate,
              isCurrentPhase |-> i = prenatalIndex ] >>
         \o collectCycle(data, currentCycle, birthDate, prenatalIndex, i + 1)
    ELSE <<>>

\* (x).toFixed(1) of a quotient num / den >= 0, in tenths
ToFixed1(num, den) == (2 * 10 * num + den) \div (2 * den)

\* a plausible slip: the Math.min(100, ...) clamp is left out
cycleProgress_NoClamp(daysIntoCycle, totalCycleDays) ==
    IF totalCycleDays > 0
    THEN ToFixed1(daysIntoCycle * 100, totalCycleDays)
    ELSE 0

\* totalCycleDays > 0 ? Math.min(100, (daysIntoCycle / totalCycleDays) * 100) : 0
\* followed by .toFixed(1); the value is in tenths of a percent, both arguments
\* are in minutes (the quotient is the same as in days)
cycleProgress(daysIntoCycle, totalCycleDays) ==
    IF totalCycleDays > 0
    THEN IF daysIntoCycle * 100 >= 100 * totalCycleDays
         THEN 1000
         ELSE ToFixed1(daysIntoCycle * 100, totalCycleDays)
    ELSE 0

getMarsCycleContext(data, birth) ==
    LET birthDate     == DateUTC(birth.day, 12, 0)
        prenatalIndex == findPrenatalMarsPhaseIndex(data, birthDate, TRUE)
    IN  IF prenatalIndex < 0
        THEN [ error     |-> "Birth date is before available Mars Phase data",
               available |-> FALSE ]
        ELSE
        LET prenatalPhase == At(data, prenatalIndex)
        IN  IF ~HasIndex(data, prenatalIndex) THEN Thrown
            ELSE
            LET currentCycle == prenatalPhase.cycle
                startIndex   == cycleStartIndex(data, currentCycle, prenatalIndex)
                cyclePhases  == collectCycle(data, currentCycle, birthDate,
                                             prenatalIndex, startIndex)
            IN  IF cyclePhases = <<>> THEN Thrown
                ELSE
                LET cycleStart == parseDate(cyclePhases[1].date)
                    cycleEnd   == parseDate(cyclePhases[Len(cyclePhases)].date)
                    totalCycleDays == cycleEnd - cycleStart
                    daysIntoCycle  == birthDate - cycleStart
                IN  [ birthDate     |-> WholeDays(birthDate),
                      available     |-> TRUE,
                      currentCycle  |-> currentCycle,
                      prenatalPhase |->
                          [ date  |-> prenatalPhase.date,
                            phase |-> prenatalPhase.phase,
                            cycle |-> prenatalPhase.cycle,
                            index |-> prenatalIndex,
                            daysBeforeBirth |->
                                WholeDays(birthDate - parseDate(prenatalPhase.date)) ],
                      cycleProgress |->
                          [ percentage     |-> cycleProgress(daysIntoCycle, totalCycleDays),
                            daysIntoCycle  |-> WholeDays(daysIntoCycle),
                            totalCycleDays |-> WholeDays(totalCycleDays) ],
                      allPhasesInCycle |-> cyclePhases ]

(***************************************************************************)
(* Sessions and devices of the client portal                               *)
(* (services/sessionManager.js, routes/auth.js, middleware/auth.js)        *)
(*                                                                         *)
(* Times are whole seconds.  One user is followed; a device is named by    *)
(* its fingerprint, which UNIQUE(user_id, device_fingerprint) makes a key  *)
(* of the user's rows of user_devices.                                     *)
(***************************************************************************)
MAX_DEVICES == 3

\* refreshToken: null in the browser's store
NoToken == [ absent |-> TRUE ]

\* JWT_REFRESH_EXPIRY, '7d', in seconds
JWT_REFRESH_EXPIRY == 604800

\* jwt.sign({ userId, type: 'refresh' }, JWT_SECRET, { expiresIn }): the token
\* encodes its payload, to which the library adds the second of issue and
\* the second of expiry; two tokens are equal exactly when their payloads are
generateRefreshToken(now) ==
    [ userId |-> "u1", type |-> "refresh", iat |-> now,
      exp |-> now + JWT_REFRESH_EXPIRY ]

\* jwt.verify and the type test: TRUE when no exception is thrown
verifyRefreshToken(token, now) ==
    /\ token # NoToken
    /\ token.type = "refresh"
    /\ now < token.exp

\* the rows selected by validateSession
validateSession(rows, refreshToken, now) ==
    { s \in rows : /\ s.refresh_token = refreshToken
                   /\ s.is_active
                   /\ s.expires_at > now }

(***************************************************************************)
(* Inputs of the house and sign operations                                 *)
(***************************************************************************)
\* Longitudes handed to the sign functions: whole degrees over several turns.
Longitudes == (-360 * MaxTurns) .. (360 * (MaxTurns + 1) - 1)

\* Widths of six successive houses; the opposite six mirror them, as the
\* quadrant house systems of sweph.houses_ex2 do.
HalfGaps ==
    { g \in [1..6 -> {20, 30, 40}] :
        g[1] + g[2] + g[3] + g[4] + g[5] + g[6] = 180 }

Ascendants == {0, 100, 345}

RECURSIVE gapSum(_, _)
gapSum(g, n) == IF n = 0 THEN 0 ELSE g[((n - 1) % 6) + 1] + gapSum(g, n - 1)

\* housesResult.data.houses.slice(0, 12): twelve cusps in [0,360)
cuspsFrom(asc, g) == [i \in 1..12 |-> (asc + gapSum(g, i - 1)) % 360]

CuspTables == { cuspsFrom(a, g) : a \in Ascendants, g \in HalfGaps }

\* planet longitudes: on, just before, just after and inside every house, in
\* the turns -MaxTurns .. MaxTurns
PlanetLongitudes(cusps) ==
    { cusps[i] + d + 360 * t :
        i \in 1..12, d \in {-1, 0, 1, 10}, t \in (-MaxTurns)..MaxTurns }

(***************************************************************************)
(* Inputs of the table lookups                                             *)
(***************************************************************************)
RECURSIVE sortedSeq(_)
\* the elements of a set of numbers in ascending order
sortedSeq(S) ==
    IF S = {} THEN <<>>
    ELSE LET m == CHOOSE x \in S : \A y \in S : x <= y
         IN  <<m>> \o sortedSeq(S \ {m})

\* vsp-dates.json: dates strictly ascending; the sign of successive
\* conjunctions advances by a fixed number of signs.  The position and type
\* fields are carried through to the result unread and are left out.
vspTable(days, start, stride) ==
    LET dates == sortedSeq(days)
    IN  [ i \in 1..Len(dates) |->
            [ date |-> dates[i],
              sign |-> ZODIAC_SIGNS[((start + (i - 1) * stride) % 12) + 1] ] ]

VspTables ==
    { vspTable(days, start, stride) :
        days \in { S \in SUBSET (1..(MaxVsp + 1)) : Cardinality(S) <= MaxVsp },
        start \in 0..3, stride \in 0..MaxStride }

PhaseNames == << "Inception", "Preparation", "Emergence", "Exploration",
                 "Identity Challenge", "Maturity", "Transcendence" >>

\* mars-phase-dates.json: dates ascending (equal dates allowed), each entry
\* with the sign naming its cycle and a phase name
MarsTables ==
    UNION { { [ i \in 1..n |-> [ date  |-> d[i], cycle |-> c[i],
                                 phase |-> PhaseNames[((i - 1) % 7) + 1] ] ] :
                d \in { f \in [1..n -> 1..(MaxMars + 1)] :
                          \A i \in 1..(n - 1) : f[i] <= f[i + 1] },
                c \in [1..n -> {"Aries", "Taurus"}] } :
            n \in 0..MaxMars }

Hours   == {0, 12, 23}
Minutes == {0, 59}

\* births from the day before the first possible table date to the day after
\* the last one
Births(lastDay) ==
    [ day : 0..(lastDay + 1), hour : Hours, minute : Minutes ]

NoBirth == [ day |-> 0, hour |-> 0, minute |-> 0 ]

\* the result slot before any call has returned
NoResult == [ pending |-> TRUE ]

(***************************************************************************)
(* Specification of the house assignment                                   *)
(***************************************************************************)
HouseIdle == houseCusps = <<>> /\ planetLongitude = 0 /\ houseResult = 0
SignIdle  == signLongitude = 0 /\ signResult = "none" /\ signOp = "none"
VspIdle   == vspData = <<>> /\ vspOp = "none" /\ vspBirth = NoBirth
             /\ vspResult = NoResult
MarsIdle  == marsData = <<>> /\ marsOp = "none" /\ marsBirth = NoBirth
             /\ marsResult = NoResult
AspectIdle == planets = <<>> /\ aspectOp = "none" /\ aspects = <<>>
ServerIdle == envEphePath = "" /\ epheFiles = {} /\ ephePath = ""
              /\ loaded = <<>> /\ listening = FALSE /\ served = <<>>
NoProvider == [ failed |-> {}, jd |-> 0, houses |-> swephHouses(0) ]
ChartIdle == chartProvider = NoProvider /\ chartResult = NoResult
             /\ warnings = <<>> /\ ikigaiResult = NoResult
NoTime    == [ month |-> 1, day |-> 1, hour |-> 0, minute |-> 0,
               zone |-> "UTC", now |-> 0 ]
TimeIdle  == timeInput = NoTime /\ timeResult = NoResult
RouteIdle == request = NoResult /\ response = NoResult /\ chartCalls = <<>>
NoEphemeris == [ sun |-> 0, moon |-> 0, node |-> 0, hasData |-> FALSE ]
NoAnswer  == [ kind |-> "none", tret |-> 0 ]
NoDay     == [ examined |-> FALSE, sunLng |-> 0, moonLng |-> 0, nodeLng |-> 0,
               accepted |-> FALSE ]
EclipseIdle ==
    /\ eclType = "none" /\ eclPc = "idle" /\ birthJd = 0 /\ searchJd = 0
    /\ searchAttempts = 0 /\ eclipse = NoEclipse /\ eclResult = NoResult
    /\ ephemeris = NoEphemeris /\ lastAnswer = NoAnswer
    /\ providerCalls = 0 /\ fallbackSteps = 0 /\ testedDay = NoDay
PhaseIdle == phasePlanets = <<>> /\ phases = NoResult
TransitIdle == transitInput = NoResult /\ transitDetected = <<>>
               /\ transitResult = NoResult
\* register and login requests are served by two request slots
Slots == 1..2
NoRequest == [ pc |-> "idle", kind |-> "none", fp |-> "none", existing |-> {},
               device |-> "none", token |-> NoToken, answer |-> "none" ]
NoStore   == [ refreshToken |-> NoToken, sessionId |-> 0 ]
NoRefresh == [ answer |-> "none", sessionId |-> 0 ]
AuthIdle  == /\ userExists = FALSE /\ devices = {} /\ sessions = {}
             /\ clock = 0 /\ started = 0
             /\ req = [ r \in Slots |-> NoRequest ]
             /\ store = NoStore /\ refreshAnswer = NoRefresh
AdvIdle   == ChartIdle /\ TimeIdle /\ RouteIdle /\ EclipseIdle /\ PhaseIdle
             /\ TransitIdle /\ AuthIdle
CoreIdle  == HouseIdle /\ SignIdle /\ VspIdle /\ MarsIdle /\ AspectIdle
             /\ ServerIdle

InitHouse ==
    /\ houseCusps \in CuspTables
    /\ planetLongitude = 0
    /\ houseResult = 0
    /\ SignIdle /\ VspIdle /\ MarsIdle /\ AspectIdle /\ ServerIdle /\ AdvIdle

GetHouseForPlanet ==
    \E lng \in PlanetLongitudes(houseCusps) :
        /\ houseResult = 0
        /\ planetLongitude' = lng
        /\ houseResult' = getHouseForPlanet(lng, houseCusps)
        /\ UNCHANGED <<houseCusps, signVars, vspVars, marsVars, aspectVars, serverVars, advVars>>

NextHouse == GetHouseForPlanet

SpecHouse == InitHouse /\ [][NextHouse]_vars

(***************************************************************************)
(* Specification of the sign derivations                                   *)
(***************************************************************************)
InitSign ==
    SignIdle /\ HouseIdle /\ VspIdle /\ MarsIdle /\ AspectIdle /\ ServerIdle /\ AdvIdle

GetZodiacSign ==
    \E lng \in Longitudes :
        /\ signOp = "none"
        /\ signLongitude' = lng
        /\ signOp' = "calculator"
        /\ signResult' = getZodiacSign(lng).sign
        /\ UNCHANGED <<houseVars, vspVars, marsVars, aspectVars, serverVars, advVars>>

GetZodiacSignAdvanced ==
    \E lng \in Longitudes :
        /\ signOp = "none"
        /\ signLongitude' = lng
        /\ signOp' = "advanced"
        /\ signResult' = getZodiacSignAdvanced(lng)
        /\ UNCHANGED <<houseVars, vspVars, marsVars, aspectVars, serverVars, advVars>>

NextSign == GetZodiacSign \/ GetZodiacSignAdvanced

SpecSign == InitSign /\ [][NextSign]_vars

(***************************************************************************)
(* Specification of the table lookups (Venus Star Point and Mars phase)    *)
(*                                                                         *)
(* Both modules load their table at import and fall back to an empty table *)
(* when the file is missing.  A behaviour loads one table (the other one   *)
(* stays empty) and serves one lookup.                                     *)
(***************************************************************************)
InitLookup ==
    /\ \/ vspData \in VspTables /\ marsData = <<>>
       \/ vspData = <<>> /\ marsData \in MarsTables
    /\ vspOp = "none" /\ vspBirth = NoBirth /\ vspResult = NoResult
    /\ marsOp = "none" /\ marsBirth = NoBirth /\ marsResult = NoResult
    /\ HouseIdle /\ SignIdle /\ AspectIdle /\ ServerIdle /\ AdvIdle

LookupIdle == vspOp = "none" /\ marsOp = "none"

CalculatePrenatalVSP ==
    \E birth \in Births(MaxVsp + 1) :
        /\ LookupIdle
        /\ vspOp' = "calculatePrenatalVSP"
        /\ vspBirth' = birth
        /\ vspResult' = calculatePrenatalVSP(vspData, birth)
        /\ UNCHANGED <<vspData, houseVars, signVars, marsVars, aspectVars, serverVars, advVars>>

CalculateVenusStar ==
    \E birth \in Births(MaxVsp + 1) :
        /\ LookupIdle
        /\ vspOp' = "calculateVenusStar"
        /\ vspBirth' = birth
        /\ vspResult' = calculateVenusStar(vspData, birth)
        /\ UNCHANGED <<vspData, houseVars, signVars, marsVars, aspectVars, serverVars, advVars>>

CalculatePrenatalMarsPhase ==
    \E birth \in Births(MaxMars + 1) :
        /\ LookupIdle
        /\ marsOp' = "calculatePrenatalMarsPhase"
        /\ marsBirth' = birth
        /\ marsResult' = calculatePrenatalMarsPhase(marsData, birth)
        /\ UNCHANGED <<marsData, houseVars, signVars, vspVars, aspectVars, serverVars, advVars>>

\* getMarsCycleContext(year, month, day) takes no hour and minute
GetMarsCycleContext ==
    \E day \in 0..(MaxMars + 2) :
        /\ LookupIdle
        /\ marsOp' = "getMarsCycleContext"
        /\ marsBirth' = [ day |-> day, hour |-> 12, minute |-> 0 ]
        /\ marsResult' = getMarsCycleContext(marsData, marsBirth')
        /\ UNCHANGED <<marsData, houseVars, signVars, vspVars, aspectVars, serverVars, advVars>>

NextLookup ==
    \/ CalculatePrenatalVSP
    \/ CalculateVenusStar
    \/ CalculatePrenatalMarsPhase
    \/ GetMarsCycleContext

SpecLookup == InitLookup /\ [][NextLookup]_vars

(***************************************************************************)
(* Specification of the index searches and of the two Mars lookups that    *)
(* POST /chart/full makes for one birth                                    *)
(*                                                                         *)
(* The tables are loaded as for the lookups above; a behaviour serves one  *)
(* call.                                                                   *)
(***************************************************************************)
\* findPrenatalVSPIndex(targetDate, beforeOnly), exported by the module
FindPrenatalVSPIndex ==
    /\ LookupIdle
    /\ \E target \in Births(MaxVsp + 1), beforeOnly \in BOOLEAN :
        /\ vspOp' = "findPrenatalVSPIndex"
        /\ vspBirth' = target
        /\ vspResult' =
               [ beforeOnly |-> beforeOnly,
                 index |-> findPrenatalVSPIndex(vspData,
                               DateUTC(target.day, target.hour, target.minute),
                               beforeOnly) ]
    /\ UNCHANGED <<vspData, houseVars, signVars, marsVars, aspectVars, serverVars, advVars>>

\* findPrenatalMarsPhaseIndex(targetDate, beforeOnly), exported by the module
FindPrenatalMarsPhaseIndex ==
    /\ LookupIdle
    /\ \E target \in Births(MaxMars + 1), beforeOnly \in BOOLEAN :
        /\ marsOp' = "findPrenatalMarsPhaseIndex"
        /\ marsBirth' = target
        /\ marsResult' =
               [ beforeOnly |-> beforeOnly,
                 index |-> findPrenatalMarsPhaseIndex(marsData,
                               DateUTC(target.day, target.hour, target.minute),
                               beforeOnly) ]
    /\ UNCHANGED <<marsData, houseVars, signVars, vspVars, aspectVars, serverVars, advVars>>

\* the handler of POST /chart/full: marsPhase is looked up with the hour and
\* minute of the request, marsCycle with its year, month and day only
ChartFullMars ==
    /\ LookupIdle
    /\ \E birth \in Births(MaxMars + 1) :
        /\ marsOp' = "chartFull"
        /\ marsBirth' = birth
        /\ marsResult' =
               [ marsPhase |-> calculatePrenatalMarsPhase(marsData, birth),
                 marsCycle |-> getMarsCycleContext(marsData, birth) ]
    /\ UNCHANGED <<marsData, houseVars, signVars, vspVars, aspectVars, serverVars, advVars>>

NextPrenatal ==
    \/ FindPrenatalVSPIndex
    \/ FindPrenatalMarsPhaseIndex
    \/ ChartFullMars

SpecPrenatal == InitLookup /\ [][NextPrenatal]_vars

(***************************************************************************)
(* Specification of the aspect scan                                        *)
(***************************************************************************)
Speeds == (-MaxSpeed)..MaxSpeed

\* two bodies, in either key order
InitAspect ==
    /\ \E names \in { <<"sun", "moon">>, <<"moon", "sun">> } :
       \E l1 \in {0, 100, 359}, l2 \in 0..359, s1 \in Speeds, s2 \in Speeds :
           planets = << [ name |-> names[1], longitude |-> l1, speed |-> s1 ],
                        [ name |-> names[2], longitude |-> l2, speed |-> s2 ] >>
    /\ aspectOp = "none" /\ aspects = <<>>
    /\ HouseIdle /\ SignIdle /\ VspIdle /\ MarsIdle /\ ServerIdle /\ AdvIdle

CalculateAspects ==
    /\ aspectOp = "none"
    /\ aspectOp' = "calculateAspects"
    /\ aspects' = calculateAspects(planets)
    /\ UNCHANGED <<planets, houseVars, signVars, vspVars, marsVars, serverVars, advVars>>

NextAspect == CalculateAspects

SpecAspect == InitAspect /\ [][NextAspect]_vars

(***************************************************************************)
(* Specification of the aspect scan over a chart of three bodies           *)
(***************************************************************************)
\* three bodies in two key orders; the second and third longitudes sweep the
\* circle, the third in steps that meet every aspect and the gaps between
InitPairs ==
    /\ \E names \in { <<"sun", "moon", "mars">>, <<"mars", "sun", "moon">> } :
       \E l1 \in {0, 100, 359}, l2 \in 0..359,
          l3 \in { 7 * k : k \in 0..51 }, s1 \in {-1, 1} :
           planets = << [ name |-> names[1], longitude |-> l1, speed |-> s1 ],
                        [ name |-> names[2], longitude |-> l2, speed |-> 1 ],
                        [ name |-> names[3], longitude |-> l3, speed |-> 0 ] >>
    /\ aspectOp = "none" /\ aspects = <<>>
    /\ HouseIdle /\ SignIdle /\ VspIdle /\ MarsIdle /\ ServerIdle /\ AdvIdle

SpecPairs == InitPairs /\ [][NextAspect]_vars

(***************************************************************************)
(* Specification of the server process                                     *)
(*                                                                         *)
(* The handlers are synchronous, so concurrent requests are served one     *)
(* after another in any order.                                             *)
(***************************************************************************)
BirthEvents == [ jd : 0..1 ]
OtherOperations == { "vsp", "transits", "prenatal-eclipses" }

InitServer ==
    /\ envEphePath \in EnvEphePaths
    /\ epheFiles \in SUBSET { CalculatorEphePath, AdvancedEphePath, "/opt/ephe" }
    /\ ephePath = ""
    /\ loaded = <<>>
    /\ listening = FALSE
    /\ served = <<>>
    /\ HouseIdle /\ SignIdle /\ VspIdle /\ MarsIdle /\ AspectIdle /\ AdvIdle

\* require() of the next service module runs its top-level statements
LoadModule ==
    /\ Len(loaded) < Len(LoadOrder)
    /\ LET module == LoadOrder[Len(loaded) + 1]
       IN  /\ loaded' = Append(loaded, module)
           /\ ephePath' = loadModule(module, envEphePath, ephePath)
    /\ UNCHANGED <<envEphePath, epheFiles, listening, served,
                   houseVars, signVars, vspVars, marsVars, aspectVars, advVars>>

Listen ==
    /\ ~listening
    /\ canListen(loaded)
    /\ listening' = TRUE
    /\ UNCHANGED <<envEphePath, epheFiles, ephePath, loaded, served,
                   houseVars, signVars, vspVars, marsVars, aspectVars, advVars>>

\* POST /chart with a valid body
PostChart ==
    \E event \in BirthEvents :
        /\ listening
        /\ Len(served) < MaxRequests
        /\ served' = Append(served,
               [ op |-> "chart", event |-> event,
                 result |-> calculateChart(event, ephePath, epheFiles) ])
        /\ UNCHANGED <<envEphePath, epheFiles, ephePath, loaded, listening,
                       houseVars, signVars, vspVars, marsVars, aspectVars, advVars>>

\* the other handlers: none of them sets the provider's path
PostOther ==
    \E op \in OtherOperations :
        /\ listening
        /\ Len(served) < MaxRequests
        /\ served' = Append(served, [ op |-> op ])
        /\ UNCHANGED <<envEphePath, epheFiles, ephePath, loaded, listening,
                       houseVars, signVars, vspVars, marsVars, aspectVars, advVars>>

NextServer == LoadModule \/ Listen \/ PostChart \/ PostOther

SpecServer == InitServer /\ [][NextServer]_vars

(***************************************************************************)
(* Specification of the chart calculation and its Ikigai analysis          *)
(*                                                                         *)
(* The provider fails the queries of any set of bodies, and may reject the *)
(* house calculation.  One chart is calculated and then analysed.          *)
(***************************************************************************)
HousesAnswers ==
    { swephHouses(jd) : jd \in 0..1 }
        \cup { [ flag |-> -1, houses |-> <<>>, points |-> <<>> ] }

\* component.primaryPlanets of data/ikigai-mapping.json
PrimaryPlanetLists ==
    { << "venus", "moon", "sun" >>, << "mars", "chiron", "north_node" >>,
      << "jupiter", "northNode" >> }

InitChart ==
    /\ chartProvider \in [ failed : SUBSET BodySet, jd : {0},
                           houses : HousesAnswers ]
    /\ chartResult = NoResult
    /\ warnings = <<>>
    /\ ikigaiResult = NoResult
    /\ CoreIdle /\ TimeIdle /\ RouteIdle /\ EclipseIdle /\ PhaseIdle /\ TransitIdle /\ AuthIdle

CalculateChart ==
    /\ chartResult = NoResult
    /\ LET calc == swephCalcFailing(chartProvider.failed, chartProvider.jd)
       IN  /\ chartResult' = calculateChartFrom([ jd |-> chartProvider.jd ],
                                                calc, chartProvider.houses)
           /\ warnings' = warnings \o warnLoop(calc, 1)
    /\ UNCHANGED <<chartProvider, ikigaiResult, timeVars, routeVars, eclipseVars, phaseVars, transitVars,
                   houseVars, signVars, vspVars, marsVars, aspectVars, serverVars, authVars>>

AnalyzeIkigai ==
    \E primaryPlanets \in PrimaryPlanetLists :
        /\ chartResult # NoResult
        /\ chartResult # Thrown
        /\ ikigaiResult = NoResult
        /\ ikigaiResult' = analyzeIkigai(chartResult, primaryPlanets)
        /\ UNCHANGED <<chartProvider, chartResult, warnings, timeVars, routeVars, eclipseVars, phaseVars, transitVars,
                       houseVars, signVars, vspVars, marsVars, aspectVars, serverVars, authVars>>

NextChart == CalculateChart \/ AnalyzeIkigai

SpecChart == InitChart /\ [][NextChart]_vars

(***************************************************************************)
(* Specification of the conversion of a civil time to UTC                  *)
(***************************************************************************)
\* the instants at which a request may arrive: in winter and in summer
Nows == { 0, 200 * 1440 }

CivilTimes ==
    [ month : {2, 3, 11}, day : {5, 11, 12, 13, 30},
      hour : {0, 1, 2, 3, 12}, minute : {0, 30, 59} ]

Zones == KnownZones \cup { "Mars/Phobos" }

InitTime ==
    /\ timeInput = NoTime
    /\ timeResult = NoResult
    /\ CoreIdle /\ ChartIdle /\ RouteIdle /\ EclipseIdle /\ PhaseIdle /\ TransitIdle /\ AuthIdle

LocalToUTC ==
    \E civil \in CivilTimes, zone \in Zones, now \in Nows :
        /\ timeResult = NoResult
        /\ timeInput' = [ month |-> civil.month, day |-> civil.day,
                          hour |-> civil.hour, minute |-> civil.minute,
                          zone |-> zone, now |-> now ]
        /\ timeResult' = localToUTC(civil, zone, now)
        /\ UNCHANGED <<chartVars, routeVars, eclipseVars, phaseVars, transitVars,
                       houseVars, signVars, vspVars, marsVars, aspectVars, serverVars, authVars>>

NextTime == LocalToUTC

SpecTime == InitTime /\ [][NextTime]_vars

(***************************************************************************)
(* Specification of the chart routes: one request, served by its handler   *)
(***************************************************************************)
Bodies ==
    [ month : {0, 3, 12, 13}, day : {0, 12, 31, 32},
      hour : {-1, 2, 23, 24}, minute : {-1, 0, 59, 60},
      latitude : {-91, 0, 90, 91}, longitude : {-181, 0, 180, 181},
      timezone : { "", "UTC", "America/New_York" } ]

\* the provider computes the houses below the polar circles; beyond them it
\* may reject the coordinates
HousesOutcomes(latitude) ==
    IF latitude > -66 /\ latitude < 66 THEN {TRUE} ELSE BOOLEAN

InitRoutes ==
    /\ request = NoResult
    /\ response = NoResult
    /\ chartCalls = <<>>
    /\ CoreIdle /\ ChartIdle /\ TimeIdle /\ EclipseIdle /\ PhaseIdle /\ TransitIdle /\ AuthIdle

PostChartRequest ==
    /\ request = NoResult
    /\ \E body \in Bodies, now \in Nows : \E housesOk \in HousesOutcomes(body.latitude) :
        /\ request' = [ route |-> "/chart", body |-> body ]
        /\ response' = postChart(body, now, housesOk).response
        /\ chartCalls' = postChart(body, now, housesOk).calls
        /\ UNCHANGED <<chartVars, timeVars, eclipseVars, phaseVars, transitVars,
                       houseVars, signVars, vspVars, marsVars, aspectVars, serverVars, authVars>>

PostChartFull ==
    /\ request = NoResult
    /\ \E body \in Bodies, now \in Nows : \E housesOk \in HousesOutcomes(body.latitude) :
        /\ request' = [ route |-> "/chart/full", body |-> body ]
        /\ response' = postChartFull(body, now, housesOk).response
        /\ chartCalls' = postChartFull(body, now, housesOk).calls
        /\ UNCHANGED <<chartVars, timeVars, eclipseVars, phaseVars, transitVars,
                       houseVars, signVars, vspVars, marsVars, aspectVars, serverVars, authVars>>

PostChartComprehensive ==
    /\ request = NoResult
    /\ \E body \in Bodies, now \in Nows : \E housesOk \in HousesOutcomes(body.latitude) :
        /\ request' = [ route |-> "/chart/comprehensive", body |-> body ]
        /\ response' = postChartComprehensive(body, now, housesOk).response
        /\ chartCalls' = postChartComprehensive(body, now, housesOk).calls
        /\ UNCHANGED <<chartVars, timeVars, eclipseVars, phaseVars, transitVars,
                       houseVars, signVars, vspVars, marsVars, aspectVars, serverVars, authVars>>

NextRoutes == PostChartRequest \/ PostChartFull \/ PostChartComprehensive

SpecRoutes == InitRoutes /\ [][NextRoutes]_vars

(***************************************************************************)
(* Specification of the bounded searches                                   *)
(*                                                                         *)
(* A behaviour runs one search: a prenatal solar or lunar eclipse search,  *)
(* one loop turn or one fallback day per step, or the scans of             *)
(* getMarsCycleContext over a loaded table.                                *)
(***************************************************************************)
BirthJds == { 5000 }

Ephemerides ==
    [ sun : {10, 200}, moon : {10, 13, 17, 140}, node : {0, 100, 350},
      hasData : BOOLEAN ]

\* what the provider's eclipse search does for an origin: it throws, finds
\* nothing, or reports an eclipse before the origin or at the birth instant
ProviderAnswers(origin, birth) ==
    { [ kind |-> "throw", tret |-> 0 ], [ kind |-> "null", tret |-> 0 ],
      [ kind |-> "result", tret |-> origin - 15 ],
      [ kind |-> "result", tret |-> birth ] }

InitSearch ==
    /\ \/ /\ eclType \in { "solar", "lunar" }
          /\ eclPc = "start"
          /\ birthJd \in BirthJds
          /\ ephemeris \in Ephemerides
          /\ marsData = <<>>
       \/ /\ eclType = "none"
          /\ eclPc = "idle"
          /\ birthJd = 0
          /\ ephemeris = NoEphemeris
          /\ marsData \in MarsTables
    /\ searchJd = 0 /\ searchAttempts = 0
    /\ eclipse = NoEclipse /\ eclResult = NoResult
    /\ lastAnswer = NoAnswer /\ providerCalls = 0
    /\ fallbackSteps = 0 /\ testedDay = NoDay
    /\ marsOp = "none" /\ marsBirth = NoBirth /\ marsResult = NoResult
    /\ HouseIdle /\ SignIdle /\ VspIdle /\ AspectIdle /\ ServerIdle
    /\ ChartIdle /\ TimeIdle /\ RouteIdle /\ PhaseIdle /\ TransitIdle /\ AuthIdle

\* what a search step leaves alone
SearchFrame ==
    UNCHANGED <<eclType, birthJd, ephemeris, chartVars, timeVars, routeVars,
                phaseVars, transitVars,
                houseVars, signVars, vspVars, marsVars, aspectVars, serverVars, authVars>>

\* findPrenatalSolarEclipse is entered
FindPrenatalSolarEclipse ==
    /\ eclPc = "start" /\ eclType = "solar"
    /\ eclPc' = "loop"
    /\ searchJd' = birthJd
    /\ searchAttempts' = 0
    /\ eclipse' = NoEclipse
    /\ UNCHANGED <<eclResult, lastAnswer, providerCalls, fallbackSteps, testedDay>>
    /\ SearchFrame

\* findPrenatalLunarEclipse is entered
FindPrenatalLunarEclipse ==
    /\ eclPc = "start" /\ eclType = "lunar"
    /\ eclPc' = "loop"
    /\ searchJd' = birthJd
    /\ searchAttempts' = 0
    /\ eclipse' = NoEclipse
    /\ UNCHANGED <<eclResult, lastAnswer, providerCalls, fallbackSteps, testedDay>>
    /\ SearchFrame

\* one turn of the while loop: the provider is asked once
SearchAttempt ==
    /\ eclPc = "loop"
    /\ loopContinues(eclipse, searchAttempts)
    /\ \E answer \in ProviderAnswers(searchJd, birthJd) :
        LET turn == searchAttempt(eclType, answer, birthJd, searchJd,
                                  searchAttempts)
        IN  /\ lastAnswer' = answer
            /\ providerCalls' = providerCalls + 1
            /\ eclipse' = turn.eclipse
            /\ searchJd' = turn.searchJd
            /\ searchAttempts' = turn.searchAttempts
            /\ IF turn.threw
               THEN eclPc' = "done" /\ eclResult' = Thrown
               ELSE UNCHANGED <<eclPc, eclResult>>
    /\ UNCHANGED <<fallbackSteps, testedDay>>
    /\ SearchFrame

\* the loop is left: with an eclipse the function returns it, without one it
\* calls findApproximatePrenatalEclipse, which starts the day before the birth
LoopExit ==
    /\ eclPc = "loop"
    /\ ~loopContinues(eclipse, searchAttempts)
    /\ IF eclipse = NoEclipse
       THEN /\ eclPc' = "fallback"
            /\ searchJd' = birthJd - 1
            /\ UNCHANGED eclResult
       ELSE /\ eclPc' = "done"
            /\ eclResult' = orUnavailable(eclipse, eclType)
            /\ UNCHANGED searchJd
    /\ UNCHANGED <<searchAttempts, eclipse, lastAnswer, providerCalls,
                   fallbackSteps, testedDay>>
    /\ SearchFrame

\* one day of the fallback scan
FallbackStep ==
    /\ eclPc = "fallback"
    /\ fallbackContinues(birthJd, searchJd)
    /\ LET pos      == positions(ephemeris, birthJd, searchJd)
           accepted == acceptsDay(eclType, pos.sunLng, pos.moonLng, pos.nodeLng)
       IN  /\ testedDay' = [ examined |-> TRUE, sunLng |-> pos.sunLng,
                             moonLng |-> pos.moonLng, nodeLng |-> pos.nodeLng,
                             accepted |-> accepted ]
           /\ fallbackSteps' = fallbackSteps + 1
           /\ IF accepted
              THEN /\ eclipse' = approximateEclipse(eclType, birthJd, searchJd)
                   /\ eclPc' = "done"
                   /\ eclResult' = orUnavailable(eclipse', eclType)
                   /\ UNCHANGED searchJd
              ELSE /\ searchJd' = searchJd - 1
                   /\ UNCHANGED <<eclipse, eclPc, eclResult>>
    /\ UNCHANGED <<searchAttempts, lastAnswer, providerCalls>>
    /\ SearchFrame

\* the fallback scan is exhausted: it returns null, the search the
\* unavailable result
FallbackExit ==
    /\ eclPc = "fallback"
    /\ ~fallbackContinues(birthJd, searchJd)
    /\ eclPc' = "done"
    /\ eclResult' = orUnavailable(eclipse, eclType)
    /\ UNCHANGED <<searchJd, searchAttempts, eclipse, lastAnswer, providerCalls,
                   fallbackSteps, testedDay>>
    /\ SearchFrame

\* getMarsCycleContext on the loaded table
ScanMarsCycle == eclType = "none" /\ GetMarsCycleContext

NextSearch ==
    \/ FindPrenatalSolarEclipse \/ FindPrenatalLunarEclipse
    \/ SearchAttempt \/ LoopExit \/ FallbackStep \/ FallbackExit
    \/ ScanMarsCycle

SpecSearch == InitSearch /\ [][NextSearch]_vars

(***************************************************************************)
(* Specification of the planetary phases                                   *)
(***************************************************************************)
PhaseBodies == << "sun", "mars", "jupiter", "saturn", "venus", "mercury" >>

\* longitudes that put Mars, Saturn and Mercury at the separation a from
\* their partner and Venus at 7a from Mars, so that a in 0..359 takes every
\* pair through every whole separation
phaseLongitude(body, sun, a) ==
    CASE body = "sun"     -> sun
      [] body = "mars"    -> (sun + a) % 360
      [] body = "jupiter" -> 50
      [] body = "saturn"  -> (50 + a) % 360
      [] body = "venus"   -> (sun + a + 7 * a) % 360
      [] body = "mercury" -> (sun + a) % 360

PhaseInputs ==
    { SelectSeq([ k \in 1..Len(PhaseBodies) |->
                    [ name      |-> PhaseBodies[k],
                      longitude |-> phaseLongitude(PhaseBodies[k], sun, a) ] ],
                LAMBDA p : p.name \in present) :
        present \in SUBSET { PhaseBodies[k] : k \in 1..Len(PhaseBodies) },
        sun \in {0, 300}, a \in 0..359 }

InitPhases ==
    /\ phasePlanets \in PhaseInputs
    /\ phases = NoResult
    /\ CoreIdle /\ ChartIdle /\ TimeIdle /\ RouteIdle /\ EclipseIdle
    /\ TransitIdle /\ AuthIdle

CalculatePlanetaryPhases ==
    /\ phases = NoResult
    /\ phases' = calculatePlanetaryPhases(phasePlanets)
    /\ UNCHANGED <<phasePlanets, chartVars, timeVars, routeVars, eclipseVars,
                   transitVars,
                   houseVars, signVars, vspVars, marsVars, aspectVars, serverVars, authVars>>

NextPhases == CalculatePlanetaryPhases

SpecPhases == InitPhases /\ [][NextPhases]_vars

(***************************************************************************)
(* Specification of the transits                                           *)
(***************************************************************************)
\* natal charts: the full chart, one without the slow bodies, one with the
\* luminaries only
NatalFailures ==
    { {}, { "jupiter", "saturn", "uranus", "neptune", "pluto", "chiron" },
      BodySet \ { "sun", "moon" } }

TransitDays == 0..59

InitTransits ==
    /\ transitInput \in [ failed : NatalFailures, natalJd : {0, 66},
                          transitJd : TransitDays ]
    /\ transitDetected = <<>>
    /\ transitResult = NoResult
    /\ CoreIdle /\ ChartIdle /\ TimeIdle /\ RouteIdle /\ EclipseIdle
    /\ PhaseIdle /\ AuthIdle

CalculateTransits ==
    /\ transitResult = NoResult
    /\ LET natal == withSouthNode(planetLoop(
                        swephCalcFailing(transitInput.failed,
                                         transitInput.natalJd), 1))
           result == calculateTransits(natal, AdvancedEphePath,
                                       {AdvancedEphePath}, transitInput.transitJd)
       IN  /\ transitResult' = result
           /\ transitDetected' =
                  detectTransitAspects(result.transitPlanets, natal, 1)
    /\ UNCHANGED <<transitInput, chartVars, timeVars, routeVars, eclipseVars,
                   phaseVars,
                   houseVars, signVars, vspVars, marsVars, aspectVars, serverVars, authVars>>

NextTransits == CalculateTransits

SpecTransits == InitTransits /\ [][NextTransits]_vars

(***************************************************************************)
(* Specification of the client portal's register, login and refresh        *)
(*                                                                         *)
(* Every await of a handler ends a step: requests served at the same time  *)
(* interleave between their database queries.  The requests carry valid    *)
(* fields and the right password.  The browser whose auth store is         *)
(* followed is the one with the fingerprint ClientDevice.                  *)
(***************************************************************************)
\* requests started in one behaviour
MaxAuth == 4
\* the clock runs from 0 to MaxClock seconds
MaxClock == 1

Fingerprints == { "d1", "d2", "d3", "d4" }
ClientDevice == "d1"

InitAuth ==
    /\ userExists = FALSE /\ devices = {} /\ sessions = {}
    /\ clock = 0 /\ started = 0
    /\ req = [ r \in Slots |-> NoRequest ]
    /\ store = NoStore /\ refreshAnswer = NoRefresh
    /\ CoreIdle /\ ChartIdle /\ TimeIdle /\ RouteIdle /\ EclipseIdle
    /\ PhaseIdle /\ TransitIdle

\* what the steps of the portal leave alone
AuthFrame ==
    UNCHANGED <<houseVars, signVars, vspVars, marsVars, aspectVars, serverVars,
                chartVars, timeVars, routeVars, eclipseVars, phaseVars,
                transitVars>>

\* the response is sent with the device and the tokens it carries; the
\* handler's locals are gone and the slot is free again
respond(r, answer) ==
    [ NoRequest EXCEPT !.kind = req[r].kind, !.device = req[r].device,
                       !.token = req[r].token, !.answer = answer ]

\* POST /register and POST /login up to their first query, the SELECT of
\* the user by email
SelectUser(r) ==
    /\ req[r].pc = "idle"
    /\ started < MaxAuth
    /\ \E kind \in { "register", "login" }, fp \in Fingerprints :
        LET arrived == [ NoRequest EXCEPT !.kind = kind, !.fp = fp ]
        IN  req' = [ req EXCEPT ![r] =
                IF kind = "register"
                THEN IF userExists
                     THEN [ arrived EXCEPT !.answer = "Email already registered" ]
                     ELSE [ arrived EXCEPT !.pc = "insertUser" ]
                ELSE IF userExists
                     THEN [ arrived EXCEPT !.pc = "selectDevices" ]
                     ELSE [ arrived EXCEPT !.answer = "Invalid credentials" ] ]
    /\ started' = started + 1
    /\ UNCHANGED <<userExists, devices, sessions, clock, store, refreshAnswer>>
    /\ AuthFrame

\* POST /register: INSERT INTO users; email is UNIQUE, a second insert throws
\* and the handler answers 500
InsertUser(r) ==
    /\ req[r].pc = "insertUser"
    /\ IF userExists
       THEN /\ req' = [ req EXCEPT ![r] = respond(r, "Registration failed") ]
            /\ UNCHANGED userExists
       ELSE /\ userExists' = TRUE
            /\ req' = [ req EXCEPT ![r].pc = "selectDevices" ]
    /\ UNCHANGED <<devices, sessions, clock, started, store, refreshAnswer>>
    /\ AuthFrame

\* registerDevice: SELECT * FROM user_devices WHERE user_id = $1
RegisterDeviceSelect(r) ==
    /\ req[r].pc = "selectDevices"
    /\ req' = [ req EXCEPT ![r].existing = devices, ![r].pc = "deviceWrite" ]
    /\ UNCHANGED <<userExists, devices, sessions, clock, started, store,
                   refreshAnswer>>
    /\ AuthFrame

\* registerDevice after the SELECT: the UPDATE of a known device, the limit
\* test, or the INSERT of a new device; POST /login answers 403 at the
\* limit, POST /register goes on without a device
RegisterDeviceWrite(r) ==
    /\ req[r].pc = "deviceWrite"
    /\ IF req[r].fp \in req[r].existing
       THEN /\ req' = [ req EXCEPT ![r].device = req[r].fp,
                                   ![r].pc = "deactivate" ]
            /\ UNCHANGED devices
       ELSE IF Cardinality(req[r].existing) >= MAX_DEVICES
       THEN /\ req' = [ req EXCEPT ![r] =
                   IF req[r].kind = "login"
                   THEN respond(r, "device_limit_reached")
                   ELSE [ req[r] EXCEPT !.device = Null, !.pc = "deactivate" ] ]
            /\ UNCHANGED devices
       ELSE IF req[r].fp \in devices
       THEN /\ req' = [ req EXCEPT ![r] =
                   respond(r, IF req[r].kind = "login" THEN "Login failed"
                              ELSE "Registration failed") ]
            /\ UNCHANGED devices
       ELSE /\ devices' = devices \cup { req[r].fp }
            /\ req' = [ req EXCEPT ![r].device = req[r].fp,
                                   ![r].pc = "deactivate" ]
    /\ UNCHANGED <<userExists, sessions, clock, started, store, refreshAnswer>>
    /\ AuthFrame

\* generateTokens, then createSession: UPDATE sessions SET is_active = false
\* WHERE user_id = $1 AND is_active = true
CreateSessionUpdate(r) ==
    /\ req[r].pc = "deactivate"
    /\ sessions' = { [ s EXCEPT !.is_active = FALSE ] : s \in sessions }
    /\ req' = [ req EXCEPT ![r].token = generateRefreshToken(clock),
                           ![r].pc = "insertSession" ]
    /\ UNCHANGED <<userExists, devices, clock, started, store, refreshAnswer>>
    /\ AuthFrame

\* createSession: INSERT INTO sessions (..., is_active) VALUES (..., true),
\* then the response; the browser stores the tokens and the session id
CreateSessionInsert(r) ==
    /\ req[r].pc = "insertSession"
    /\ LET sessionId == Cardinality(sessions) + 1
       IN  /\ sessions' = sessions \cup
                   { [ id            |-> sessionId,
                       device_id     |-> req[r].device,
                       refresh_token |-> req[r].token,
                       is_active     |-> TRUE,
                       expires_at    |-> req[r].token.iat + 7 * 24 * 60 * 60 ] }
           /\ store' = IF req[r].fp = ClientDevice
                       THEN [ refreshToken |-> req[r].token,
                              sessionId    |-> sessionId ]
                       ELSE store
    /\ req' = [ req EXCEPT ![r] = respond(r, "ok") ]
    /\ UNCHANGED <<userExists, devices, clock, started, refreshAnswer>>
    /\ AuthFrame

\* refreshAccessToken in the browser and POST /refresh on the server: the
\* stored refresh token is sent; a success replaces both stored tokens by
\* the returned ones, a failure logs the browser out
RefreshAccessToken ==
    /\ store.refreshToken # NoToken
    /\ IF ~verifyRefreshToken(store.refreshToken, clock)
       THEN /\ refreshAnswer' = [ answer |-> "Invalid refresh token",
                                  sessionId |-> store.sessionId ]
            /\ store' = NoStore
       ELSE IF validateSession(sessions, store.refreshToken, clock) = {}
       THEN /\ refreshAnswer' = [ answer |-> "session_invalidated",
                                  sessionId |-> store.sessionId ]
            /\ store' = NoStore
       ELSE /\ refreshAnswer' = [ answer |-> "ok",
                                  sessionId |-> store.sessionId ]
            /\ store' = [ store EXCEPT
                             !.refreshToken = generateRefreshToken(clock) ]
    /\ UNCHANGED <<userExists, devices, sessions, clock, started, req>>
    /\ AuthFrame

\* a second passes
Tick ==
    /\ clock < MaxClock
    /\ clock' = clock + 1
    /\ UNCHANGED <<userExists, devices, sessions, started, req, store,
                   refreshAnswer>>
    /\ AuthFrame

NextAuth ==
    \/ \E r \in Slots : SelectUser(r)
    \/ \E r \in Slots : InsertUser(r)
    \/ \E r \in Slots : RegisterDeviceSelect(r)
    \/ \E r \in Slots : RegisterDeviceWrite(r)
    \/ \E r \in Slots : CreateSessionUpdate(r)
    \/ \E r \in Slots : CreateSessionInsert(r)
    \/ RefreshAccessToken
    \/ Tick

SpecAuth == InitAuth /\ [][NextAuth]_vars

(***************************************************************************)
(* C1  getHouseForPlanet: for cusps that partition the ecliptic, the       *)
(* returned house is in 1..12 and is the one and only house i whose sector *)
(* [cusp[i], cusp[i+1]) contains the normalized longitude, modulo 360; a   *)
(* longitude on a cusp belongs to the house that starts there.             *)
(***************************************************************************)
Normalize(lng) == lng % 360

\* l lies in the half-open wrap-around sector of house h
InSector(l, cusps, h) ==
    (l - cusps[h]) % 360 < (cusps[(h % 12) + 1] - cusps[h]) % 360

C1_HouseIsUniqueSector ==
    houseResult # 0 =>
        /\ houseResult \in 1..12
        /\ InSector(Normalize(planetLongitude), houseCusps, houseResult)
        /\ \A h \in 1..12 :
               InSector(Normalize(planetLongitude), houseCusps, h)
                   => h = houseResult
        /\ \A h \in 1..12 :
               Normalize(planetLongitude) = houseCusps[h] => houseResult = h

\* a negative longitude that sits exactly on the cusp of a house other than
\* the first, in a chart whose wrap-around house is not the twelfth
C1_Witness ==
    /\ houseResult \in 2..12
    /\ planetLongitude < 0
    /\ Normalize(planetLongitude) = houseCusps[houseResult]
    /\ houseCusps[12] < houseCusps[1]

(***************************************************************************)
(* C2  A birth whose calendar date is the date of table entry k >= 1       *)
(* resolves in calculatePrenatalVSP to entry k-1, never to entry k,        *)
(* whatever hour and minute are passed.                                    *)
(***************************************************************************)
C2_ExactDateResolvesToPrevious ==
    vspOp = "calculatePrenatalVSP" =>
        \A k \in 1..(Len(vspData) - 1) :
            vspData[k + 1].date = vspBirth.day =>
                /\ "index" \in DOMAIN vspResult
                /\ vspResult.index = k - 1

(***************************************************************************)
(* C4  getMarsCycleContext: in every available result the percentage of    *)
(* cycleProgress lies in [0,100] (here 0..1000 tenths of a percent).       *)
(***************************************************************************)
C4_CycleProgressInRange ==
    (marsOp = "getMarsCycleContext" /\ "cycleProgress" \in DOMAIN marsResult) =>
        /\ marsResult.cycleProgress.percentage >= 0
        /\ marsResult.cycleProgress.percentage <= 1000

\* a birth after the last phase of a cycle that spans more than one day
C4_Witness ==
    /\ marsOp = "getMarsCycleContext"
    /\ "cycleProgress" \in DOMAIN marsResult
    /\ marsResult.cycleProgress.totalCycleDays > 0
    /\ marsResult.cycleProgress.daysIntoCycle
           > marsResult.cycleProgress.totalCycleDays
    /\ marsResult.cycleProgress.percentage = 1000

(***************************************************************************)
(* C5  calculateVenusStar: dominantElement.count is the largest of the     *)
(* four element tallies over signPattern, dominantElement.element is an    *)
(* element with that tally, and count <= signPattern.length = total.       *)
(***************************************************************************)
Elements == << "fire", "earth", "air", "water" >>

\* the element of a sign by its place in the zodiac: fire, earth, air, water
\* repeat from Aries on
ElementOfSign(sign) ==
    LET idx == CHOOSE i \in 1..12 : ZODIAC_SIGNS[i] = sign
    IN  Elements[((idx - 1) % 4) + 1]

Tally(signs, e) ==
    Cardinality({ i \in 1..Len(signs) : ElementOfSign(signs[i]) = e })

MaxTally(signs) ==
    CHOOSE m \in 0..Len(signs) :
        /\ \E i \in 1..4 : Tally(signs, Elements[i]) = m
        /\ \A i \in 1..4 : Tally(signs, Elements[i]) <= m

StarAvailable ==
    vspOp = "calculateVenusStar" /\ "dominantElement" \in DOMAIN vspResult

C5_DominantIsMode ==
    StarAvailable =>
        LET d == vspResult.dominantElement
            signs == vspResult.signPattern
        IN  /\ d.count = MaxTally(signs)
            /\ \E i \in 1..4 : d.element = Elements[i]
            /\ Tally(signs, d.element) = d.count
            /\ d.count <= Len(signs)
            /\ d.total = Len(signs)

\* a full five-point star whose dominant element is not the only one present
C5_Witness ==
    /\ StarAvailable
    /\ Len(vspResult.signPattern) = 5
    /\ vspResult.dominantElement.count \in 2..4

(***************************************************************************)
(* C6  calculateVenusStar breaks ties for the dominant element by          *)
(* first-encountered order: among the elements with the highest tally the  *)
(* one whose first sign comes earliest in signPattern is reported.         *)
(***************************************************************************)
FirstSeen(signs, e) ==
    CHOOSE i \in 1..Len(signs) :
        /\ ElementOfSign(signs[i]) = e
        /\ \A j \in 1..(i - 1) : ElementOfSign(signs[j]) # e

C6_TieByFirstEncountered ==
    StarAvailable =>
        LET d == vspResult.dominantElement
            signs == vspResult.signPattern
        IN  \A i \in 1..4 :
                Tally(signs, Elements[i]) = MaxTally(signs) =>
                    FirstSeen(signs, d.element) <= FirstSeen(signs, Elements[i])

(***************************************************************************)
(* C6 (amended)  Ties are broken by the fixed order of the tally's keys,   *)
(* fire, earth, air, water: the reported element is the first one in that  *)
(* order that has the highest tally.                                       *)
(***************************************************************************)
C6_TieByElementOrder ==
    StarAvailable =>
        LET d == vspResult.dominantElement
            signs == vspResult.signPattern
        IN  \E i \in 1..4 :
                /\ d.element = Elements[i]
                /\ Tally(signs, Elements[i]) = MaxTally(signs)
                /\ \A j \in 1..(i - 1) : Tally(signs, Elements[j]) < MaxTally(signs)

\* a tie in which the element met first in signPattern is not the one reported
C6_Witness ==
    /\ StarAvailable
    /\ LET d == vspResult.dominantElement
           signs == vspResult.signPattern
       IN  \E i \in 1..4 :
               /\ Elements[i] # d.element
               /\ Tally(signs, Elements[i]) = d.count
               /\ FirstSeen(signs, Elements[i]) < FirstSeen(signs, d.element)

(***************************************************************************)
(* C7  A birth instant that is not later than the first table entry, or    *)
(* any birth with an empty table, gets a no-data result (available = false *)
(* with an error message) from calculatePrenatalVSP, calculateVenusStar,   *)
(* calculatePrenatalMarsPhase and getMarsCycleContext; none of them throws.*)
(***************************************************************************)
NoData(result) ==
    /\ "error" \in DOMAIN result
    /\ "available" \in DOMAIN result
    /\ result.available = FALSE

NotAfterFirst(data, birth) ==
    \/ data = <<>>
    \/ DateUTC(birth.day, birth.hour, birth.minute) <= parseDate(data[1].date)

C7_NoDataBeforeTableStart ==
    /\ (vspOp # "none" /\ NotAfterFirst(vspData, vspBirth)) => NoData(vspResult)
    /\ (marsOp # "none" /\ NotAfterFirst(marsData, marsBirth)) => NoData(marsResult)
    /\ "threw" \notin DOMAIN vspResult
    /\ "threw" \notin DOMAIN marsResult

\* a birth at midnight of the very date of the first entry of a non-empty table
C7_Witness ==
    /\ vspOp = "calculatePrenatalVSP"
    /\ vspData # <<>>
    /\ DateUTC(vspBirth.day, vspBirth.hour, vspBirth.minute)
           = parseDate(vspData[1].date)
    /\ NoData(vspResult)

(***************************************************************************)
(* C3  Aspect detection is symmetric: the record obtained when A is        *)
(* enumerated before B equals the one obtained when B is enumerated before *)
(* A in aspect, exactAngle, actualAngle, orb and applying; only planet1    *)
(* and planet2 are swapped.                                                *)
(***************************************************************************)
SwapPlanets(a) == [ a EXCEPT !.planet1 = a.planet2, !.planet2 = a.planet1 ]

C3_AspectSymmetric ==
    aspectOp = "calculateAspects" =>
        LET other == calculateAspects(<< planets[2], planets[1] >>)
        IN  /\ Len(other) = Len(aspects)
            /\ \A i \in 1..Len(aspects) : other[i] = SwapPlanets(aspects[i])

(***************************************************************************)
(* C8  Every sign derivation normalizes first: for every longitude, both   *)
(* getZodiacSign functions return the sign with index                      *)
(* floor(normalize(L) / 30), always one of the twelve sign names.          *)
(***************************************************************************)
C8_SignOfNormalized ==
    signOp # "none" =>
        /\ signResult = ZODIAC_SIGNS[(Normalize(signLongitude) \div 30) + 1]
        /\ \E i \in 1..12 : signResult = ZODIAC_SIGNS[i]

C10_PathSetOnce == [][ephePath # "" => ephePath' = ephePath]_vars

(***************************************************************************)
(* C11  calculateChart degrades gracefully: whatever set of bodies the     *)
(* provider fails, the chart is returned when the houses can be computed;  *)
(* planets holds exactly the bodies that succeeded, plus southNode exactly *)
(* when northNode succeeded; one warning is written per failed body; every *)
(* aspect is between two bodies of planets.                                *)
(***************************************************************************)
PlanetNames(ps) == { ps[i].name : i \in DOMAIN ps }

C11_DegradesGracefully ==
    (chartResult # NoResult /\ chartProvider.houses.flag >= 0) =>
        /\ chartResult # Thrown
        /\ LET failed == chartProvider.failed
               names  == PlanetNames(chartResult.planets)
           IN  /\ names = (BodySet \ failed)
                          \cup (IF "northNode" \in failed THEN {}
                                ELSE {"southNode"})
               /\ Len(chartResult.planets) = Cardinality(names)
               /\ Len(warnings) = Cardinality(failed)
               /\ { warnings[i] : i \in DOMAIN warnings } = failed
               /\ \A i \in DOMAIN chartResult.aspects :
                      /\ chartResult.aspects[i].planet1 \in names
                      /\ chartResult.aspects[i].planet2 \in names

\* a chart returned although the node, the Moon and Chiron failed, with
\* aspects among the bodies that are left
C11_Witness ==
    /\ chartResult # NoResult
    /\ chartResult # Thrown
    /\ chartProvider.failed = { "northNode", "moon", "chiron" }
    /\ Len(warnings) = 3
    /\ Len(chartResult.aspects) > 0

(***************************************************************************)
(* C17  analyzeIkigai on a chart of calculateChart: every entry of         *)
(* primaryInfluences, and soulPurpose, carries a house in 1..12 that is    *)
(* getHouseForPlanet of the body's longitude and the chart's twelve cusps; *)
(* the house is never null.                                                *)
(***************************************************************************)
ChartCusps(chart) == [ i \in 1..12 |-> chart.houses[i].cusp ]

HouseOfChart(chart, name) ==
    getHouseForPlanet(planetNamed(chart.planets, name)[1].longitude,
                      ChartCusps(chart))

C17_HouseFromChartCusps ==
    ikigaiResult # NoResult =>
        /\ \A i \in DOMAIN ikigaiResult.primaryInfluences :
               LET influence == ikigaiResult.primaryInfluences[i]
               IN  /\ influence.house # Null
                   /\ influence.house \in 1..12
                   /\ influence.house = HouseOfChart(chartResult, influence.planet)
        /\ \A i \in DOMAIN ikigaiResult.soulPurpose :
               /\ ikigaiResult.soulPurpose[i].house # Null
               /\ ikigaiResult.soulPurpose[i].house \in 1..12
               /\ ikigaiResult.soulPurpose[i].house
                      = HouseOfChart(chartResult, "northNode")


(***************************************************************************)
(* C13  localToUTC fails with an error for an unrecognized timezone and    *)
(* for a civil time that does not exist in the zone (a time skipped by a   *)
(* DST transition); it never silently substitutes a shifted instant: a     *)
(* result returned reads, in the zone, the civil time that was passed.     *)
(***************************************************************************)
\* the civil time exists in the zone: some instant reads this wall clock
CivilTimeExists(civil, zone) ==
    /\ ~hasInvalidUnits(civil)
    /\ \E o \in { zoneOffset(zone, now) : now \in Nows } :
           zoneOffset(zone, objToLocalTS(civil) - o) = o

C13_FailsOrExact ==
    timeResult # NoResult =>
        /\ timeInput.zone \notin KnownZones => timeResult = Thrown
        /\ (timeInput.zone \in KnownZones
              /\ ~CivilTimeExists(timeInput, timeInput.zone))
               => timeResult = Thrown
        /\ timeResult # Thrown
               => timeResult.localTime = objToLocalTS(timeInput)


(***************************************************************************)
(* C12  POST /chart, /chart/full and /chart/comprehensive reject a request *)
(* with a month outside 1..12, a day outside 1..31, an hour outside 0..23, *)
(* a minute outside 0..59, a latitude outside -90..90 or a longitude       *)
(* outside -180..180 (status 400) before any chart calculation is made.    *)
(***************************************************************************)
OutOfRange(body) ==
    \/ body.month \notin 1..12
    \/ body.day \notin 1..31
    \/ body.hour \notin 0..23
    \/ body.minute \notin 0..59
    \/ body.latitude \notin -90..90
    \/ body.longitude \notin -180..180

C12_InvalidRangesRejected ==
    (request # NoResult /\ OutOfRange(request.body)) =>
        /\ response.status = 400
        /\ chartCalls = <<>>


(***************************************************************************)
(* C14  Both eclipse searches return an "unavailable" result (available =  *)
(* false with an error message) rather than failing when nothing is found  *)
(* within the attempt and day budgets; exceptions of the provider's search *)
(* are absorbed: a finished search has returned an eclipse record or the   *)
(* unavailable result, never an exception and never null.                  *)
(***************************************************************************)
Unavailable(result) ==
    /\ DOMAIN result = { "error", "available" }
    /\ result.available = FALSE
    /\ result.error # ""

C14_UnavailableNotFailure ==
    /\ eclResult # Thrown
    /\ eclPc = "done" =>
          /\ eclResult # NoEclipse
          /\ eclResult # NoResult
          /\ eclipse = NoEclipse => Unavailable(eclResult)
          /\ eclipse # NoEclipse => eclResult = eclipse

\* every attempt but the last found nothing, the last one threw, and no day
\* of the fallback scan qualified
C14_Witness ==
    /\ eclPc = "done"
    /\ providerCalls = maxAttempts
    /\ lastAnswer.kind = "throw"
    /\ fallbackSteps = maxDays - 1
    /\ Unavailable(eclResult)

(***************************************************************************)
(* C18  Both eclipse searches ask the provider at most 10 times, moving    *)
(* the search origin 180 days back after each failure; an attempt whose    *)
(* eclipse time is before birthJd is returned as the exact result and the  *)
(* fallback is not invoked; the fallback runs only after all attempts      *)
(* have failed.                                                            *)
(***************************************************************************)
FoundPrenatal == lastAnswer.kind = "result" /\ lastAnswer.tret < birthJd

C19_SearchesBounded ==
    /\ searchAttempts <= maxAttempts
    /\ providerCalls <= maxAttempts
    /\ fallbackSteps <= maxDays - 1
    /\ eclPc = "fallback" => birthJd - searchJd = fallbackSteps + 1
    /\ (marsOp = "getMarsCycleContext" /\ "allPhasesInCycle" \in DOMAIN marsResult)
          => /\ Len(marsResult.allPhasesInCycle) <= Len(marsData)
             /\ marsResult.prenatalPhase.index < Len(marsData)

\* a search that used up both budgets
C19_Witness ==
    /\ eclPc = "done"
    /\ searchAttempts = maxAttempts
    /\ fallbackSteps = maxDays - 1

(***************************************************************************)
(* C20  findApproximatePrenatalEclipse accepts a day exactly when the      *)
(* minimal separation of Sun and Moon is within 5 degrees of 0 (solar) or  *)
(* of 180 (lunar) and the minimal separation of the Sun from the nearer    *)
(* lunar node is under 18 degrees, whichever of the two bodies is ahead.   *)
(***************************************************************************)
MinSeparation(a, b) ==
    LET d == (a - b) % 360 IN IF d > 180 THEN 360 - d ELSE d

NodeSeparation(sunLng, nodeLng) ==
    LET toNode     == MinSeparation(sunLng, nodeLng)
        toOpposite == MinSeparation(sunLng, nodeLng + 180)
    IN  IF toNode < toOpposite THEN toNode ELSE toOpposite

C20_AcceptsBySeparation ==
    testedDay.examined =>
        (testedDay.accepted <=>
            /\ IF eclType = "solar"
               THEN MinSeparation(testedDay.sunLng, testedDay.moonLng) < 5
               ELSE 180 - MinSeparation(testedDay.sunLng, testedDay.moonLng) < 5
            /\ NodeSeparation(testedDay.sunLng, testedDay.nodeLng) < 18)


(***************************************************************************)
(* C15  calculatePlanetaryPhases gives each of the four tracked pairs      *)
(* (Mars-Sun, Saturn-Jupiter, Venus-Mars, Mercury-Sun) that is present     *)
(* exactly one of the eight phase names, the one of the 45-degree bucket   *)
(* that holds the normalized separation in [0,360).                        *)
(***************************************************************************)
SynodicPhases ==
    << "New Phase", "Crescent Phase", "First Quarter", "Gibbous Phase",
       "Full Phase", "Disseminating Phase", "Last Quarter", "Balsamic Phase" >>

Present(ps, name) == \E i \in DOMAIN ps : ps[i].name = name

Separation(ps, a, b) ==
    (planetNamed(ps, a)[1].longitude - planetNamed(ps, b)[1].longitude) % 360

\* the entry of the pair exists exactly when both bodies do, and then names
\* the phase of the bucket
PairPhased(ps, entry, a, b) ==
    IF Present(ps, a) /\ Present(ps, b)
    THEN /\ Len(entry) = 1
         /\ "phase" \in DOMAIN entry[1]
         /\ entry[1].phase = SynodicPhases[(Separation(ps, a, b) \div 45) + 1]
    ELSE entry = <<>>

C15_FourPairsPhased ==
    phases # NoResult =>
        /\ PairPhased(phasePlanets, phases.marsSun, "mars", "sun")
        /\ PairPhased(phasePlanets, phases.saturnJupiter, "saturn", "jupiter")
        /\ PairPhased(phasePlanets, phases.venusMars, "venus", "mars")
        /\ PairPhased(phasePlanets, phases.mercurySun, "mercury", "sun")

(***************************************************************************)
(* C15 (amended)  Each of the three pairs Mars-Sun, Saturn-Jupiter and     *)
(* Venus-Mars that is present gets exactly one of the eight phase names,   *)
(* the one of the 45-degree bucket that holds the normalized separation in *)
(* [0,360).  Mercury-Sun, when present, gets no phase name: it is either   *)
(* morning star (separation over 180 or under 28 degrees) or evening star. *)
(***************************************************************************)
C15_ThreePairsPhased ==
    phases # NoResult =>
        /\ PairPhased(phasePlanets, phases.marsSun, "mars", "sun")
        /\ PairPhased(phasePlanets, phases.saturnJupiter, "saturn", "jupiter")
        /\ PairPhased(phasePlanets, phases.venusMars, "venus", "mars")
        /\ IF Present(phasePlanets, "mercury") /\ Present(phasePlanets, "sun")
           THEN /\ Len(phases.mercurySun) = 1
                /\ "phase" \notin DOMAIN phases.mercurySun[1]
                /\ phases.mercurySun[1].isMorningStar
                       # phases.mercurySun[1].isEveningStar
                /\ phases.mercurySun[1].isMorningStar
                       <=> (Separation(phasePlanets, "mercury", "sun") > 180
                            \/ Separation(phasePlanets, "mercury", "sun") < 28)
           ELSE phases.mercurySun = <<>>

\* all four pairs present, Mars and Venus each on a bucket boundary
C15_Witness ==
    /\ phases # NoResult
    /\ Len(phasePlanets) = 6
    /\ phases.marsSun # <<>>
    /\ phases.marsSun[1].angle = 315
    /\ phases.marsSun[1].phase = "Balsamic Phase"
    /\ phases.venusMars[1].angle = 45
    /\ phases.venusMars[1].phase = "Crescent Phase"
    /\ phases.mercurySun # <<>>

(***************************************************************************)
(* C16  calculateTransits returns aspectsToNatal in order of non-          *)
(* decreasing orb, with at most 20 records, and these are the tightest of  *)
(* the detected aspects.                                                   *)
(***************************************************************************)
Range(seq) == { seq[i] : i \in DOMAIN seq }

C16_TightestFirst ==
    transitResult # NoResult =>
        LET top == transitResult.aspectsToNatal
        IN  /\ Len(top) <= 20
            /\ Len(top) = (IF Len(transitDetected) < 20
                           THEN Len(transitDetected) ELSE 20)
            /\ \A i \in 1..(Len(top) - 1) : top[i].orb <= top[i + 1].orb
            /\ Range(top) \subseteq Range(transitDetected)
            /\ Cardinality(Range(top)) = Len(top)
            /\ \A j \in DOMAIN transitDetected :
                   \/ transitDetected[j] \in Range(top)
                   \/ \A i \in DOMAIN top : top[i].orb <= transitDetected[j].orb

\* more than 20 aspects detected, not in order of orb, and cut to 20
C16_Witness ==
    /\ transitResult # NoResult
    /\ Len(transitDetected) > 20
    /\ Len(transitResult.aspectsToNatal) = 20
    /\ transitDetected[1].orb > transitDetected[2].orb
    /\ transitResult.aspectsToNatal[1].orb < transitResult.aspectsToNatal[20].orb

(***************************************************************************)
(* C21  getMarsCycleContext reconstructs the entire cycle of the prenatal  *)
(* phase: for a table sorted ascending, allPhasesInCycle is exactly the    *)
(* maximal contiguous run of table entries that share the prenatal entry's *)
(* cycle name and contain it, in table order; exactly one element has      *)
(* isCurrentPhase = true and it is the prenatal entry; isPrenatal is true  *)
(* for precisely the elements dated before the birth instant (all elements *)
(* up to and including the current one) and false for all later ones.      *)
(***************************************************************************)
\* the position (from 1) of the last entry dated strictly before the instant
\* t, or 0 when there is none
LastBefore(data, t) ==
    LET S == { i \in 1..Len(data) : parseDate(data[i].date) < t }
    IN  IF S = {} THEN 0 ELSE CHOOSE i \in S : \A j \in S : j <= i

\* the positions joined to position p by entries of p's cycle only
CycleRun(data, p) ==
    { i \in 1..Len(data) :
        \A k \in (IF i < p THEN i ELSE p)..(IF i < p THEN p ELSE i) :
            data[k].cycle = data[p].cycle }

C21_WholeCycleTagged ==
    (marsOp = "getMarsCycleContext" /\ "allPhasesInCycle" \in DOMAIN marsResult) =>
        LET birthDate == DateUTC(marsBirth.day, 12, 0)
            p   == LastBefore(marsData, birthDate)
            run == CycleRun(marsData, p)
            lo  == CHOOSE i \in run : \A j \in run : i <= j
            all == marsResult.allPhasesInCycle
        IN  /\ p >= 1
            /\ Len(all) = Cardinality(run)
            /\ \A k \in 1..Len(all) :
                   /\ lo + k - 1 \in run
                   /\ all[k].date  = marsData[lo + k - 1].date
                   /\ all[k].cycle = marsData[lo + k - 1].cycle
                   /\ all[k].phase = marsData[lo + k - 1].phase
                   /\ all[k].isCurrentPhase <=> (lo + k - 1 = p)
                   /\ all[k].isPrenatal <=> (parseDate(all[k].date) < birthDate)
                   /\ all[k].isPrenatal <=> (lo + k - 1 <= p)

\* a cycle of three phases whose second phase is the prenatal one and whose
\* last phase falls after the birth
C21_Witness ==
    /\ marsOp = "getMarsCycleContext"
    /\ "allPhasesInCycle" \in DOMAIN marsResult
    /\ Len(marsResult.allPhasesInCycle) = 3
    /\ marsResult.allPhasesInCycle[1].isPrenatal
    /\ marsResult.allPhasesInCycle[2].isCurrentPhase
    /\ ~marsResult.allPhasesInCycle[3].isPrenatal

(***************************************************************************)
(* C22  calculateVenusStar builds the five points from table positions:    *)
(* with p the last entry strictly before birth and q the first entry       *)
(* strictly after birth, venusStarPoint = entry p, leftArm = entry p-1,    *)
(* rightArm = entry p-2, leftLeg = entry q, rightLeg = entry q+1; each     *)
(* point is present if and only if its index lies inside the table, no     *)
(* access outside the table occurs near either edge, and signPattern lists *)
(* the signs of the present points in the order rightArm, leftArm,         *)
(* venusStarPoint, leftLeg, rightLeg (length between 1 and 5).             *)
(***************************************************************************)
\* the position (from 1) of the first entry dated strictly after the instant
\* t, or the position past the end of the table when there is none
FirstAfter(data, t) ==
    LET S == { i \in 1..Len(data) : parseDate(data[i].date) > t }
    IN  IF S = {} THEN Len(data) + 1 ELSE CHOOSE i \in S : \A j \in S : i <= j

StarOrder == << "rightArm", "leftArm", "venusStarPoint", "leftLeg", "rightLeg" >>

\* the table index (from 0) each point is to be taken from
StarIndex(data, t) ==
    LET p == LastBefore(data, t) - 1
        q == FirstAfter(data, t) - 1
    IN  [ venusStarPoint |-> p, leftArm |-> p - 1, rightArm |-> p - 2,
          leftLeg |-> q, rightLeg |-> q + 1 ]

C22_StarFromTablePositions ==
    /\ "threw" \notin DOMAIN vspResult
    /\ (vspOp = "calculateVenusStar" /\ "points" \in DOMAIN vspResult) =>
        LET t    == DateUTC(vspBirth.day, vspBirth.hour, vspBirth.minute)
            want == StarIndex(vspData, t)
            pts  == vspResult.points
            kept == SelectSeq(StarOrder, LAMBDA name : name \in DOMAIN pts)
        IN  /\ DOMAIN pts
                  = { name \in DOMAIN want : want[name] \in 0..(Len(vspData) - 1) }
            /\ \A name \in DOMAIN pts :
                   /\ pts[name].index = want[name]
                   /\ pts[name].date = vspData[want[name] + 1].date
                   /\ pts[name].sign = vspData[want[name] + 1].sign
            /\ Len(vspResult.signPattern) = Len(kept)
            /\ \A i \in 1..Len(kept) :
                   vspResult.signPattern[i] = vspData[want[kept[i]] + 1].sign
            /\ Len(vspResult.signPattern) \in 1..5

\* a star cut at both edges of the table: no right arm and no right leg
C22_Witness ==
    /\ vspOp = "calculateVenusStar"
    /\ "points" \in DOMAIN vspResult
    /\ DOMAIN vspResult.points = { "venusStarPoint", "leftArm", "leftLeg" }
    /\ Len(vspResult.signPattern) = 3

(***************************************************************************)
(* C24  For a reference table sorted ascending by date,                    *)
(* findPrenatalVSPIndex(target, beforeOnly) and                            *)
(* findPrenatalMarsPhaseIndex(target, beforeOnly) return the greatest      *)
(* index i whose entry date is strictly before target when beforeOnly is   *)
(* true, and on or before target when beforeOnly is false; they return -1  *)
(* if and only if no entry satisfies that condition.                       *)
(***************************************************************************)
\* the indices (from 0) of the entries that qualify
Qualifying(data, t, beforeOnly) ==
    { i \in 0..(Len(data) - 1) :
        IF beforeOnly THEN parseDate(data[i + 1].date) < t
        ELSE parseDate(data[i + 1].date) <= t }

GreatestQualifying(data, birth, result) ==
    LET S == Qualifying(data, DateUTC(birth.day, birth.hour, birth.minute),
                        result.beforeOnly)
    IN  /\ (result.index = -1) <=> (S = {})
        /\ S # {} => /\ result.index \in S
                      /\ \A i \in S : i <= result.index

C24_LastQualifyingIndex ==
    /\ vspOp = "findPrenatalVSPIndex"
           => GreatestQualifying(vspData, vspBirth, vspResult)
    /\ marsOp = "findPrenatalMarsPhaseIndex"
           => GreatestQualifying(marsData, marsBirth, marsResult)

\* a target that falls exactly on an entry other than the first, searched
\* "on or before": the entry itself is returned
C24_Witness ==
    /\ vspOp = "findPrenatalVSPIndex"
    /\ ~vspResult.beforeOnly
    /\ vspResult.index >= 1
    /\ vspResult.index < Len(vspData) - 1
    /\ parseDate(vspData[vspResult.index + 1].date)
           = DateUTC(vspBirth.day, vspBirth.hour, vspBirth.minute)

(***************************************************************************)
(* C25  In calculateVenusStar, for a table sorted ascending with distinct  *)
(* dates and any birth instant that has a prenatal entry, the first        *)
(* postnatal entry is the table entry immediately after the prenatal entry *)
(* (postnatalIndex = prenatalIndex + 1 whenever a postnatal entry exists), *)
(* so the star's points are consecutive table entries and no table entry   *)
(* lying between the top point and the left leg is left out of the star,   *)
(* including when the birth instant coincides exactly with a table entry's *)
(* timestamp.                                                              *)
(***************************************************************************)
C25_LegFollowsTop ==
    (/\ vspOp = "calculateVenusStar"
     /\ "points" \in DOMAIN vspResult
     /\ "leftLeg" \in DOMAIN vspResult.points) =>
        vspResult.points.leftLeg.index = vspResult.points.venusStarPoint.index + 1

(***************************************************************************)
(* C26  For every birth (year, month, day, hour, minute) with available    *)
(* data, the prenatal table entry selected by calculatePrenatalMarsPhase   *)
(* with the hour and minute is the same entry that getMarsCycleContext     *)
(* (year, month, day) reports as prenatalPhase, so the marsPhase.cycle and *)
(* marsCycle.cycle returned together by /chart/full for one birth always   *)
(* agree.                                                                  *)
(***************************************************************************)
C26_PhaseAndCycleAgree ==
    (/\ marsOp = "chartFull"
     /\ "index" \in DOMAIN marsResult.marsPhase
     /\ "prenatalPhase" \in DOMAIN marsResult.marsCycle) =>
        /\ marsResult.marsPhase.index = marsResult.marsCycle.prenatalPhase.index
        /\ marsResult.marsPhase.cycle = marsResult.marsCycle.currentCycle

(***************************************************************************)
(* C23  calculateAspects yields mutually exclusive aspects per pair: every *)
(* unordered pair of distinct bodies present in the chart is examined      *)
(* exactly once on its minimal separation (<= 180 degrees), the result     *)
(* holds at most one record per unordered pair and none for a body with    *)
(* itself, and that record is for the first definition, in the priority    *)
(* order conjunction, sextile, square, trine, opposition, quincunx,        *)
(* semisextile, semisquare, sesquiquadrate, whose orb tolerance covers the *)
(* separation.                                                             *)
(***************************************************************************)
Priority == << "conjunction", "sextile", "square", "trine", "opposition",
               "quincunx", "semisextile", "semisquare", "sesquiquadrate" >>

\* the shorter arc between two longitudes of [0,360)
MinimalSeparation(a, b) ==
    LET d == (a - b) % 360 IN IF d > 180 THEN 360 - d ELSE d

\* the definitions whose tolerance covers a separation
Covering(sep) ==
    { k \in 1..Len(ASPECTS) :
        sep - ASPECTS[k].angle <= ASPECTS[k].orb
        /\ ASPECTS[k].angle - sep <= ASPECTS[k].orb }

RecordsOf(i, j) ==
    { r \in 1..Len(aspects) :
        { aspects[r].planet1, aspects[r].planet2 }
            = { planets[i].name, planets[j].name } }

C23_OneAspectPerPair ==
    aspectOp = "calculateAspects" =>
        /\ [ k \in 1..Len(ASPECTS) |-> ASPECTS[k].name ] = Priority
        /\ \A r \in 1..Len(aspects) : aspects[r].planet1 # aspects[r].planet2
        /\ \A i \in 1..Len(planets), j \in 1..Len(planets) :
               i < j =>
                   LET sep == MinimalSeparation(planets[i].longitude,
                                                planets[j].longitude)
                       cov == Covering(sep)
                       rs  == RecordsOf(i, j)
                   IN  /\ Cardinality(rs) <= 1
                       /\ (rs = {}) <=> (cov = {})
                       /\ \A r \in rs :
                              /\ aspects[r].planet1 = planets[i].name
                              /\ aspects[r].planet2 = planets[j].name
                              /\ aspects[r].actualAngle = sep
                              /\ \E k \in cov :
                                     /\ \A m \in cov : k <= m
                                     /\ aspects[r].aspect = Priority[k]

\* three bodies, every pair in aspect, one pair across the 0/360 boundary
C23_Witness ==
    /\ aspectOp = "calculateAspects"
    /\ Len(planets) = 3
    /\ Len(aspects) = 3
    /\ \E r \in 1..3 :
           /\ aspects[r].aspect = "sextile"
           /\ \E i \in 1..3, j \in 1..3 :
                  /\ planets[i].name = aspects[r].planet1
                  /\ planets[j].name = aspects[r].planet2
                  /\ planets[i].longitude - planets[j].longitude > 180

(***************************************************************************)
(* C27  calculateTransits tests every (transit body, natal body) pair for  *)
(* which the natal body has a numeric longitude in [0,360), including a    *)
(* natal longitude of exactly 0 (0 degrees Aries): a natal body at         *)
(* longitude 0 that is within orb of a transit body produces an aspect     *)
(* record just as any other longitude does.                                *)
(***************************************************************************)
\* the planets of the natal chart handed to calculateTransits
NatalPlanets ==
    withSouthNode(planetLoop(swephCalcFailing(transitInput.failed,
                                              transitInput.natalJd), 1))

C27_EveryNatalLongitudeTested ==
    transitResult # NoResult =>
        \A i \in DOMAIN transitResult.transitPlanets, j \in DOMAIN NatalPlanets,
           k \in DOMAIN aspectTypes :
            LET t   == transitResult.transitPlanets[i]
                n   == NatalPlanets[j]
                sep == MinimalSeparation(t.longitude, n.longitude)
            IN  (/\ n.longitude \in 0..359
                 /\ sep - aspectTypes[k].angle <= aspectTypes[k].orb
                 /\ aspectTypes[k].angle - sep <= aspectTypes[k].orb) =>
                    \E r \in DOMAIN transitDetected :
                        /\ transitDetected[r].transit = t.name
                        /\ transitDetected[r].natal = n.name
                        /\ transitDetected[r].aspect = aspectTypes[k].name

(***************************************************************************)
(* C28  Single active session: after any sequence and any interleaving of  *)
(* register and login requests for one user (each running createSession as *)
(* an UPDATE that deactivates previous sessions followed by an INSERT of    *)
(* the new one), at most one row of the sessions table for that user has   *)
(* is_active = true.                                                       *)
(***************************************************************************)
C28_SingleActiveSession ==
    Cardinality({ s \in sessions : s.is_active }) <= 1

(***************************************************************************)
(* C29  Device limit: after any sequence and any interleaving of login     *)
(* requests for one user, the number of rows in user_devices for that user *)
(* never exceeds MAX_DEVICES (3); a login from an unknown device when the   *)
(* user already has 3 devices is refused with device_limit_reached and     *)
(* creates neither a device nor a session.                                 *)
(***************************************************************************)
C29_DeviceLimit ==
    /\ Cardinality(devices) <= MAX_DEVICES
    /\ \A r \in Slots :
           req[r].answer = "device_limit_reached" =>
               /\ req[r].device = "none"
               /\ req[r].token = NoToken

(***************************************************************************)
(* C30  Token refresh can be repeated: while a user's session remains      *)
(* active and unexpired, the refresh token returned by a successful POST   *)
(* /refresh (which the client stores in place of the old one) is itself    *)
(* accepted by the next POST /refresh, so a client that only logs in once  *)
(* and then refreshes any number of times is never answered                *)
(* session_invalidated without another login, logout or device removal     *)
(* having occurred: whenever the answer is session_invalidated, the        *)
(* client's session is no longer active or has expired.                    *)
(***************************************************************************)
C30_RefreshRepeatable ==
    refreshAnswer.answer = "session_invalidated" =>
        ~ \E s \in sessions : /\ s.id = refreshAnswer.sessionId
                               /\ s.is_active
                               /\ s.expires_at > clock

====
